---- MODULE Spec2Model ----
(***************************************************************************)
(* pgcmp: comparison of two PostgreSQL schema snapshots.                   *)
(*                                                                         *)
(* The model follows src/pgcmp/analysis.py (the analysis tree and its      *)
(* derived properties), src/pgcmp/db/*.py (catalog objects, their keys and *)
(* the constraint-definition normalizer) and src/main.py (the order in     *)
(* which the two snapshots are gathered and analysed).                     *)
(*                                                                         *)
(* Encoding.  A Python str that takes part in key building, splitting,     *)
(* prefix tests, sorting or normalization is a sequence of one-character   *)
(* strings.  Other str fields, compared only for equality and interpolated *)
(* into messages, are TLA+ strings.  An optional value (x | None) is a     *)
(* sequence of length 0 (None) or 1 (the value).  A dict is the sequence   *)
(* of its entries in insertion order.  An f-string is the TLA+ string that *)
(* concatenates its literal and interpolated parts.                        *)
(***************************************************************************)
EXTENDS Integers, Sequences, FiniteSets, TLC

VARIABLES left_db, right_db, result, pc, console, definition_in, normalized

vars == <<left_db, right_db, result, pc, console, definition_in, normalized>>

(***************************************************************************)
(* Python values                                                           *)
(***************************************************************************)
None == <<>>

Some(v) == <<v>>

IsNone(o) == Len(o) = 0

\* Truthiness of an optional dataclass instance: None is falsy, an instance
\* (no __bool__, no __len__) is truthy.
Truthy(o) == Len(o) = 1

Val(o) == o[1]

\* str(bool) as interpolated by an f-string.
PyStr(b) == IF b THEN "True" ELSE "False"

\* The characters of the model in code-point order; CodePoint is used only to
\* compare characters, as str.__lt__ does.
Chars ==
    <<"\t", "\n", " ", "(", ")", ",", "-", ".", "0", "1", "2", "3", "4", "5",
      "6", "7", "8", "9", ":", ";", "<", "=", ">",
      "A", "B", "C", "D", "E", "F", "G", "H", "I", "J", "K", "L", "M", "N",
      "O", "P", "Q", "R", "S", "T", "U", "V", "W", "X", "Y", "Z",
      "[", "]", "_",
      "a", "b", "c", "d", "e", "f", "g", "h", "i", "j", "k", "l", "m", "n",
      "o", "p", "q", "r", "s", "t", "u", "v", "w", "x", "y", "z">>

CodePoint(c) == CHOOSE i \in 1..Len(Chars) : Chars[i] = c

\* str.__lt__: lexicographic by code point, a proper prefix is smaller.
RECURSIVE StrLess(_, _)
StrLess(s, t) ==
    IF Len(t) = 0 THEN FALSE
    ELSE IF Len(s) = 0 THEN TRUE
    ELSE IF s[1] = t[1] THEN StrLess(Tail(s), Tail(t))
    ELSE CodePoint(s[1]) < CodePoint(t[1])

\* str.startswith
StartsWith(s, prefix) ==
    /\ Len(prefix) <= Len(s)
    /\ SubSeq(s, 1, Len(prefix)) = prefix

\* "." in key
HasDot(s) == \E i \in 1..Len(s) : s[i] = "."

FirstDot(s) == CHOOSE i \in 1..Len(s) : s[i] = "." /\ \A j \in 1..(i - 1) : s[j] # "."

LastDot(s) == CHOOSE i \in 1..Len(s) : s[i] = "." /\ \A j \in (i + 1)..Len(s) : s[j] # "."

\* key.split(".", 1)[1] if "." in key else key
SplitOnceTail(key) ==
    IF HasDot(key) THEN SubSeq(key, FirstDot(key) + 1, Len(key)) ELSE key

\* key.split(".")[-1]
SplitLast(key) ==
    IF HasDot(key) THEN SubSeq(key, LastDot(key) + 1, Len(key)) ELSE key

\* sorted(set): the elements of a finite set of str in ascending order.
RECURSIVE sorted(_)
sorted(S) ==
    IF S = {} THEN <<>>
    ELSE LET m == CHOOSE x \in S : \A y \in S \ {x} : StrLess(x, y)
         IN  <<m>> \o sorted(S \ {m})

(***************************************************************************)
(* dict: entries [k, v] in insertion order, keys unique                    *)
(***************************************************************************)
EmptyDict == <<>>

keys(d) == {d[i].k : i \in 1..Len(d)}

DictGet(d, key) ==
    IF key \in keys(d)
    THEN Some(d[CHOOSE i \in 1..Len(d) : d[i].k = key].v)
    ELSE None

\* d[key] = v: a new key is appended, an existing key keeps its position.
DictSet(d, key, v) ==
    IF key \in keys(d)
    THEN [i \in 1..Len(d) |-> IF d[i].k = key THEN [k |-> key, v |-> v] ELSE d[i]]
    ELSE Append(d, [k |-> key, v |-> v])

\* {key: v for key, v in d.items() if cond(key, v)}
DictFilter(d, cond(_, _)) == SelectSeq(d, LAMBDA e : cond(e.k, e.v))

(***************************************************************************)
(* src/pgcmp/db/constraints.py: the definition normalizer                  *)
(***************************************************************************)
Alnum ==
    {"0", "1", "2", "3", "4", "5", "6", "7", "8", "9",
     "A", "B", "C", "D", "E", "F", "G", "H", "I", "J", "K", "L", "M", "N",
     "O", "P", "Q", "R", "S", "T", "U", "V", "W", "X", "Y", "Z",
     "a", "b", "c", "d", "e", "f", "g", "h", "i", "j", "k", "l", "m", "n",
     "o", "p", "q", "r", "s", "t", "u", "v", "w", "x", "y", "z"}

Whitespace == {" ", "\t", "\n"}

CastCharacterVaryingArray ==
    <<":", ":", "c", "h", "a", "r", "a", "c", "t", "e", "r", " ",
      "v", "a", "r", "y", "i", "n", "g", "[", "]">>

CastCharacterVarying ==
    <<":", ":", "c", "h", "a", "r", "a", "c", "t", "e", "r", " ",
      "v", "a", "r", "y", "i", "n", "g">>

CastTextArray == <<":", ":", "t", "e", "x", "t", "[", "]">>

CastText == <<":", ":", "t", "e", "x", "t">>

\* re.sub(literal, "", s): every leftmost non-overlapping occurrence removed.
RECURSIVE RemoveAll(_, _)
RemoveAll(pat, s) ==
    IF Len(s) = 0 THEN <<>>
    ELSE IF StartsWith(s, pat) THEN RemoveAll(pat, SubSeq(s, Len(pat) + 1, Len(s)))
    ELSE <<s[1]>> \o RemoveAll(pat, Tail(s))

\* re.sub(r"<class>+", " ", s) for a character class: every maximal run of
\* characters of the class becomes one space.
RECURSIVE SquashRuns(_, _)
SquashRuns(class, s) ==
    IF Len(s) = 0 THEN <<>>
    ELSE IF s[1] \in class
         THEN LET rest ==
                      IF \E i \in 1..Len(s) : s[i] \notin class
                      THEN SubSeq(s, CHOOSE i \in 1..Len(s) :
                                         /\ s[i] \notin class
                                         /\ \A j \in 1..(i - 1) : s[j] \in class,
                                  Len(s))
                      ELSE <<>>
              IN  <<" ">> \o SquashRuns(class, rest)
         ELSE <<s[1]>> \o SquashRuns(class, Tail(s))

\* str.strip()
RECURSIVE strip(_)
strip(s) ==
    IF Len(s) = 0 THEN s
    ELSE IF s[1] \in Whitespace THEN strip(Tail(s))
    ELSE IF s[Len(s)] \in Whitespace THEN strip(SubSeq(s, 1, Len(s) - 1))
    ELSE s

\* The cast removal without the ::text pattern.
StripCasts_no_text(s) ==
    RemoveAll(CastTextArray,
        RemoveAll(CastCharacterVarying,
            RemoveAll(CastCharacterVaryingArray, s)))

\* The substitution steps of normalize_constraint_definition on a str.
StripCasts(s) ==
    RemoveAll(CastText,
        RemoveAll(CastTextArray,
            RemoveAll(CastCharacterVarying,
                RemoveAll(CastCharacterVaryingArray, s))))

NonAlnumToSpace(s) == SquashRuns({Chars[i] : i \in 1..Len(Chars)} \ Alnum, s)

CollapseSpaces(s) == strip(SquashRuns(Whitespace, s))

\* normalize_constraint_definition without the step that turns runs of
\* non-alphanumeric characters into a space.
normalize_constraint_definition_casts_only(d) ==
    IF IsNone(d) THEN None
    ELSE Some(CollapseSpaces(StripCasts(Val(d))))

normalize_constraint_definition(d) ==
    IF IsNone(d) THEN None
    ELSE Some(CollapseSpaces(NonAlnumToSpace(StripCasts(Val(d)))))

(***************************************************************************)
(* src/pgcmp/db/*.py: catalog objects and their composite keys             *)
(***************************************************************************)
\* "".join(chars): a str of the model as a TLA+ string, for interpolation.
RECURSIVE Join(_)
Join(s) == IF Len(s) = 0 THEN "" ELSE s[1] \o Join(Tail(s))

\* str(x) of an int | None field, as interpolated by an f-string.
PyStrOpt(o) == IF IsNone(o) THEN "None" ELSE ToString(Val(o))

\* str(x) of a str | None field whose text the model keeps as a string.
PyStrOrNone(o) == IF IsNone(o) THEN "None" ELSE Val(o)

Dot == <<".">>

Schema_key(o) == o.schema_name

Table_key(o) == o.table_schema \o Dot \o o.table_name

Column_key(o) == o.table_schema \o Dot \o o.table_name \o Dot \o o.column_name

Index_key(o) == o.schema_name \o Dot \o o.index_name

Constraint_key(o) == o.table_schema \o Dot \o o.table_name \o Dot \o o.constraint_name

Trigger_key(o) == o.trigger_schema \o Dot \o o.event_object_table \o Dot \o o.trigger_name

View_key(o) == o.table_schema \o Dot \o o.table_name

MaterializedView_key(o) == o.schema_name \o Dot \o o.matview_name

Function_key(o) ==
    o.schema_name \o Dot \o o.function_name \o <<"(">> \o o.argument_types \o <<")">>

Sequence_key(o) == o.sequence_schema \o Dot \o o.sequence_name

(***************************************************************************)
(* src/pgcmp/analysis.py: analysis rows and their derived properties       *)
(***************************************************************************)
NONE == ""

ADD == "ADD"

REMOVE == "REMOVE"

MODIFY == "MODIFY"

Action == {NONE, ADD, REMOVE, MODIFY}

\* mods.append(item) under a condition.
AppendIf(cond, item) == IF cond THEN <<item>> ELSE <<>>

BothObjects(row) == Truthy(row.left_object) /\ Truthy(row.right_object)

\* ColumnAnalysis.get_modifications with the default compared before the
\* nullability.
ColumnAnalysis_get_modifications_default_first(row) ==
    IF ~BothObjects(row) THEN <<>>
    ELSE LET left == Val(row.left_object)
             right == Val(row.right_object)
             old_null == IF right.is_nullable = "YES" THEN "null" ELSE "not null"
             new_null == IF left.is_nullable = "YES" THEN "null" ELSE "not null"
         IN  AppendIf(left.data_type # right.data_type,
                      "type: " \o right.data_type \o " -> " \o left.data_type)
             \o AppendIf(left.character_maximum_length # right.character_maximum_length,
                         "max_length: " \o PyStrOpt(right.character_maximum_length)
                             \o " -> " \o PyStrOpt(left.character_maximum_length))
             \o AppendIf(left.numeric_precision # right.numeric_precision,
                         "precision: " \o PyStrOpt(right.numeric_precision)
                             \o " -> " \o PyStrOpt(left.numeric_precision))
             \o AppendIf(left.numeric_scale # right.numeric_scale,
                         "scale: " \o PyStrOpt(right.numeric_scale)
                             \o " -> " \o PyStrOpt(left.numeric_scale))
             \o AppendIf(left.column_default # right.column_default,
                         "default: " \o PyStrOrNone(right.column_default)
                             \o " -> " \o PyStrOrNone(left.column_default))
             \o AppendIf(left.is_nullable # right.is_nullable,
                         "nullable: " \o old_null \o " -> " \o new_null)

ColumnAnalysis_get_modifications(row) ==
    IF ~BothObjects(row) THEN <<>>
    ELSE LET left == Val(row.left_object)
             right == Val(row.right_object)
             old_null == IF right.is_nullable = "YES" THEN "null" ELSE "not null"
             new_null == IF left.is_nullable = "YES" THEN "null" ELSE "not null"
         IN  AppendIf(left.data_type # right.data_type,
                      "type: " \o right.data_type \o " -> " \o left.data_type)
             \o AppendIf(left.character_maximum_length # right.character_maximum_length,
                         "max_length: " \o PyStrOpt(right.character_maximum_length)
                             \o " -> " \o PyStrOpt(left.character_maximum_length))
             \o AppendIf(left.numeric_precision # right.numeric_precision,
                         "precision: " \o PyStrOpt(right.numeric_precision)
                             \o " -> " \o PyStrOpt(left.numeric_precision))
             \o AppendIf(left.numeric_scale # right.numeric_scale,
                         "scale: " \o PyStrOpt(right.numeric_scale)
                             \o " -> " \o PyStrOpt(left.numeric_scale))
             \o AppendIf(left.is_nullable # right.is_nullable,
                         "nullable: " \o old_null \o " -> " \o new_null)
             \o AppendIf(left.column_default # right.column_default,
                         "default: " \o (IF IsNone(right.column_default) THEN "None"
                                         ELSE Val(right.column_default))
                             \o " -> " \o (IF IsNone(left.column_default) THEN "None"
                                           ELSE Val(left.column_default)))

\* TriggerAnalysis.get_modifications without the comparison of the statements.
TriggerAnalysis_get_modifications_no_statement(row) ==
    IF ~BothObjects(row) THEN <<>>
    ELSE LET left == Val(row.left_object)
             right == Val(row.right_object)
         IN  AppendIf(left.event_manipulation # right.event_manipulation,
                      "event: " \o right.event_manipulation
                          \o " -> " \o left.event_manipulation)
             \o AppendIf(left.action_timing # right.action_timing,
                         "timing: " \o right.action_timing \o " -> " \o left.action_timing)
             \o AppendIf(left.action_orientation # right.action_orientation,
                         "orientation: " \o right.action_orientation
                             \o " -> " \o left.action_orientation)

TriggerAnalysis_get_modifications(row) ==
    IF ~BothObjects(row) THEN <<>>
    ELSE LET left == Val(row.left_object)
             right == Val(row.right_object)
         IN  AppendIf(left.event_manipulation # right.event_manipulation,
                      "event: " \o right.event_manipulation
                          \o " -> " \o left.event_manipulation)
             \o AppendIf(left.action_timing # right.action_timing,
                         "timing: " \o right.action_timing \o " -> " \o left.action_timing)
             \o AppendIf(left.action_orientation # right.action_orientation,
                         "orientation: " \o right.action_orientation
                             \o " -> " \o left.action_orientation)
             \o AppendIf(left.action_statement # right.action_statement,
                         "statement changed")

\* IndexAnalysis.get_modifications comparing the definitions after
\* normalize_constraint_definition.
IndexAnalysis_get_modifications_normalized(row) ==
    IF ~BothObjects(row) THEN <<>>
    ELSE LET left == Val(row.left_object)
             right == Val(row.right_object)
         IN  AppendIf(left.is_unique # right.is_unique,
                      "unique: " \o PyStr(right.is_unique) \o " -> " \o PyStr(left.is_unique))
             \o AppendIf(left.is_primary # right.is_primary,
                         "primary: " \o PyStr(right.is_primary)
                             \o " -> " \o PyStr(left.is_primary))
             \o AppendIf(normalize_constraint_definition(Some(left.index_definition))
                             # normalize_constraint_definition(Some(right.index_definition)),
                         "definition changed")

IndexAnalysis_get_modifications(row) ==
    IF ~BothObjects(row) THEN <<>>
    ELSE LET left == Val(row.left_object)
             right == Val(row.right_object)
         IN  AppendIf(left.is_unique # right.is_unique,
                      "unique: " \o PyStr(right.is_unique) \o " -> " \o PyStr(left.is_unique))
             \o AppendIf(left.is_primary # right.is_primary,
                         "primary: " \o PyStr(right.is_primary)
                             \o " -> " \o PyStr(left.is_primary))
             \o AppendIf(left.index_definition # right.index_definition,
                         "definition changed")

\* ConstraintAnalysis.get_modifications comparing the definitions as
\* pg_get_constraintdef() printed them.
ConstraintAnalysis_get_modifications_raw(row) ==
    IF ~BothObjects(row) THEN <<>>
    ELSE LET left == Val(row.left_object)
             right == Val(row.right_object)
         IN  AppendIf(left.constraint_type # right.constraint_type,
                      "type: " \o right.constraint_type \o " -> " \o left.constraint_type)
             \o AppendIf(left.constraint_definition # right.constraint_definition,
                         "definition changed")

ConstraintAnalysis_get_modifications(row) ==
    IF ~BothObjects(row) THEN <<>>
    ELSE LET left == Val(row.left_object)
             right == Val(row.right_object)
             left_def == normalize_constraint_definition(left.constraint_definition)
             right_def == normalize_constraint_definition(right.constraint_definition)
         IN  AppendIf(left.constraint_type # right.constraint_type,
                      "type: " \o right.constraint_type \o " -> " \o left.constraint_type)
             \o AppendIf(left_def # right_def, "definition changed")

\* FunctionAnalysis.get_modifications describing each change from the left
\* value to the right value.
FunctionAnalysis_get_modifications_left_to_right(row) ==
    IF ~BothObjects(row) THEN <<>>
    ELSE LET left == Val(row.left_object)
             right == Val(row.right_object)
         IN  AppendIf(left.return_type # right.return_type,
                      "return_type: " \o PyStrOrNone(left.return_type)
                          \o " -> " \o PyStrOrNone(right.return_type))
             \o AppendIf(left.language # right.language,
                         "language: " \o left.language \o " -> " \o right.language)
             \o AppendIf(left.is_strict # right.is_strict,
                         "strict: " \o PyStr(left.is_strict)
                             \o " -> " \o PyStr(right.is_strict))
             \o AppendIf(left.volatility # right.volatility,
                         "volatility: " \o left.volatility \o " -> " \o right.volatility)
             \o AppendIf(left.function_definition # right.function_definition,
                         "body changed")

FunctionAnalysis_get_modifications(row) ==
    IF ~BothObjects(row) THEN <<>>
    ELSE LET left == Val(row.left_object)
             right == Val(row.right_object)
         IN  AppendIf(left.return_type # right.return_type,
                      "return_type: " \o PyStrOrNone(right.return_type)
                          \o " -> " \o PyStrOrNone(left.return_type))
             \o AppendIf(left.language # right.language,
                         "language: " \o right.language \o " -> " \o left.language)
             \o AppendIf(left.is_strict # right.is_strict,
                         "strict: " \o PyStr(right.is_strict)
                             \o " -> " \o PyStr(left.is_strict))
             \o AppendIf(left.volatility # right.volatility,
                         "volatility: " \o right.volatility \o " -> " \o left.volatility)
             \o AppendIf(left.function_definition # right.function_definition,
                         "body changed")

\* ViewAnalysis.get_modifications comparing the definitions after
\* normalize_constraint_definition.
ViewAnalysis_get_modifications_normalized(row) ==
    IF ~BothObjects(row) THEN <<>>
    ELSE LET left == Val(row.left_object)
             right == Val(row.right_object)
         IN  AppendIf(left.is_updatable # right.is_updatable,
                      "updatable: " \o right.is_updatable \o " -> " \o left.is_updatable)
             \o AppendIf(left.is_insertable_into # right.is_insertable_into,
                         "insertable: " \o right.is_insertable_into
                             \o " -> " \o left.is_insertable_into)
             \o AppendIf(normalize_constraint_definition(left.view_definition)
                             # normalize_constraint_definition(right.view_definition),
                         "definition changed")

ViewAnalysis_get_modifications(row) ==
    IF ~BothObjects(row) THEN <<>>
    ELSE LET left == Val(row.left_object)
             right == Val(row.right_object)
         IN  AppendIf(left.is_updatable # right.is_updatable,
                      "updatable: " \o right.is_updatable \o " -> " \o left.is_updatable)
             \o AppendIf(left.is_insertable_into # right.is_insertable_into,
                         "insertable: " \o right.is_insertable_into
                             \o " -> " \o left.is_insertable_into)
             \o AppendIf(left.view_definition # right.view_definition,
                         "definition changed")

MaterializedViewAnalysis_get_modifications(row) ==
    IF ~BothObjects(row) THEN <<>>
    ELSE LET left == Val(row.left_object)
             right == Val(row.right_object)
         IN  AppendIf(left.definition # right.definition, "definition changed")

\* Method dispatch on the row's class; SchemaAnalysis and TableAnalysis
\* inherit AnalysisRow.get_modifications, which returns [].
get_modifications(row) ==
    CASE row.cls = "ColumnAnalysis" -> ColumnAnalysis_get_modifications(row)
      [] row.cls = "TriggerAnalysis" -> TriggerAnalysis_get_modifications(row)
      [] row.cls = "IndexAnalysis" -> IndexAnalysis_get_modifications(row)
      [] row.cls = "ConstraintAnalysis" -> ConstraintAnalysis_get_modifications(row)
      [] row.cls = "FunctionAnalysis" -> FunctionAnalysis_get_modifications(row)
      [] row.cls = "ViewAnalysis" -> ViewAnalysis_get_modifications(row)
      [] row.cls = "MaterializedViewAnalysis" ->
             MaterializedViewAnalysis_get_modifications(row)
      [] OTHER -> <<>>

\* full_name of a row of any class but SchemaAnalysis and TableAnalysis.
full_name(row) ==
    IF row.cls \in {"ColumnAnalysis", "TriggerAnalysis"}
    THEN row.schema_name \o Dot \o row.table_name \o Dot \o row.name
    ELSE row.schema_name \o Dot \o row.name

\* str(x) of a str | None field, as interpolated by an f-string.
PyStrDef(o) == IF IsNone(o) THEN "None" ELSE Join(Val(o))

\* " ".join(parts)
RECURSIVE JoinWith(_, _)
JoinWith(sep, parts) ==
    IF Len(parts) = 0 THEN ""
    ELSE IF Len(parts) = 1 THEN parts[1]
    ELSE parts[1] \o sep \o JoinWith(sep, Tail(parts))

\* Truthiness of an int | None field: None and 0 are falsy.
TruthyInt(o) == Truthy(o) /\ Val(o) # 0

\* ColumnAnalysis._format_column_spec
_format_column_spec(col) ==
    JoinWith(" ",
        <<col.data_type>>
        \o (IF TruthyInt(col.character_maximum_length)
            THEN <<"(" \o PyStrOpt(col.character_maximum_length) \o ")">>
            ELSE IF TruthyInt(col.numeric_precision)
            THEN IF TruthyInt(col.numeric_scale)
                 THEN <<"(" \o PyStrOpt(col.numeric_precision) \o ","
                            \o PyStrOpt(col.numeric_scale) \o ")">>
                 ELSE <<"(" \o PyStrOpt(col.numeric_precision) \o ")">>
            ELSE <<>>)
        \o <<IF col.is_nullable = "YES" THEN "null" ELSE "not null">>
        \o (IF Truthy(col.column_default) /\ Val(col.column_default) # ""
            THEN <<"default " \o Val(col.column_default)>>
            ELSE <<>>))

\* The old / new pair of lines of a modification_detail.
OldNew(head, old, new) ==
    JoinWith("\n", <<head, "  old: " \o old, "  new: " \o new>>)

\* modification_detail of a row of any class but SchemaAnalysis and
\* TableAnalysis: "" without modifications, else the header line and the
\* old (right) and new (left) text.
modification_detail(row) ==
    IF get_modifications(row) = <<>> THEN ""
    ELSE LET left == Val(row.left_object)
             right == Val(row.right_object)
             name == Join(full_name(row))
         IN  CASE row.cls = "ColumnAnalysis" ->
                      OldNew("alter column " \o name,
                             _format_column_spec(right), _format_column_spec(left))
               [] row.cls = "TriggerAnalysis" ->
                      OldNew("replace trigger " \o name,
                             right.action_timing \o " " \o right.event_manipulation
                                 \o " " \o right.action_orientation,
                             left.action_timing \o " " \o left.event_manipulation
                                 \o " " \o left.action_orientation)
               [] row.cls = "IndexAnalysis" ->
                      OldNew("recreate index " \o name,
                             Join(right.index_definition), Join(left.index_definition))
               [] row.cls = "ConstraintAnalysis" ->
                      OldNew("replace constraint " \o name,
                             PyStrDef(right.constraint_definition),
                             PyStrDef(left.constraint_definition))
               [] row.cls = "FunctionAnalysis" ->
                      JoinWith("\n",
                          <<"replace function " \o name>>
                          \o [i \in 1..Len(get_modifications(row)) |->
                                  "  " \o get_modifications(row)[i]])
               [] row.cls = "ViewAnalysis" ->
                      OldNew("replace view " \o name,
                             PyStrDef(right.view_definition),
                             PyStrDef(left.view_definition))
               [] row.cls = "MaterializedViewAnalysis" ->
                      OldNew("replace materialized view " \o name,
                             Join(right.definition), Join(left.definition))

is_modified(row) == Len(get_modifications(row)) > 0

AnalysisRow_is_different(row) ==
    IF row.in_left # row.in_right THEN TRUE ELSE is_modified(row)

\* any(x.is_different for x in children) for a list of leaf rows.
AnyLeafDifferent(children) ==
    \E i \in 1..Len(children) : AnalysisRow_is_different(children[i])

\* TableAnalysis.is_different without the loop over the constraints.
TableAnalysis_is_different_no_constraints(row) ==
    IF row.in_left # row.in_right THEN TRUE
    ELSE IF AnyLeafDifferent(row.columns) THEN TRUE
    ELSE IF AnyLeafDifferent(row.triggers) THEN TRUE
    ELSE IF AnyLeafDifferent(row.indexes) THEN TRUE
    ELSE FALSE

\* TableAnalysis.is_different with a difference of the row counts counted
\* as a difference of the table.
TableAnalysis_is_different_row_counts(row) ==
    IF row.in_left # row.in_right THEN TRUE
    ELSE IF Val(row.left_object).row_count # Val(row.right_object).row_count THEN TRUE
    ELSE IF AnyLeafDifferent(row.columns) THEN TRUE
    ELSE IF AnyLeafDifferent(row.triggers) THEN TRUE
    ELSE IF AnyLeafDifferent(row.indexes) THEN TRUE
    ELSE IF AnyLeafDifferent(row.constraints) THEN TRUE
    ELSE FALSE

TableAnalysis_is_different(row) ==
    IF row.in_left # row.in_right THEN TRUE
    ELSE IF AnyLeafDifferent(row.columns) THEN TRUE
    ELSE IF AnyLeafDifferent(row.triggers) THEN TRUE
    ELSE IF AnyLeafDifferent(row.indexes) THEN TRUE
    ELSE IF AnyLeafDifferent(row.constraints) THEN TRUE
    ELSE FALSE

SchemaAnalysis_is_different(row) ==
    IF row.in_left # row.in_right THEN TRUE
    ELSE IF \E i \in 1..Len(row.tables) : TableAnalysis_is_different(row.tables[i])
         THEN TRUE
    ELSE IF AnyLeafDifferent(row.views) THEN TRUE
    ELSE IF AnyLeafDifferent(row.materialized_views) THEN TRUE
    ELSE IF AnyLeafDifferent(row.functions) THEN TRUE
    ELSE FALSE

is_different(row) ==
    CASE row.cls = "SchemaAnalysis" -> SchemaAnalysis_is_different(row)
      [] row.cls = "TableAnalysis" -> TableAnalysis_is_different(row)
      [] OTHER -> AnalysisRow_is_different(row)

\* action with the two one-sided cases exchanged.
action_swapped(row) ==
    IF row.in_left /\ ~row.in_right THEN REMOVE
    ELSE IF row.in_right /\ ~row.in_left THEN ADD
    ELSE IF is_modified(row) THEN MODIFY
    ELSE NONE

\* action returning MODIFY for a row on both sides that is different.
action_is_different(row) ==
    IF row.in_left /\ ~row.in_right THEN ADD
    ELSE IF row.in_right /\ ~row.in_left THEN REMOVE
    ELSE IF is_different(row) THEN MODIFY
    ELSE NONE

action(row) ==
    IF row.in_left /\ ~row.in_right THEN ADD
    ELSE IF row.in_right /\ ~row.in_left THEN REMOVE
    ELSE IF is_modified(row) THEN MODIFY
    ELSE NONE

\* The verbs of action_description for ADD, REMOVE and MODIFY; SchemaAnalysis
\* and TableAnalysis have no branch for MODIFY.
ActionVerbs(cls) ==
    CASE cls = "SchemaAnalysis" -> <<"create schema ", "drop schema ">>
      [] cls = "TableAnalysis" -> <<"create table ", "drop table ">>
      [] cls = "ColumnAnalysis" -> <<"add column ", "drop column ", "alter column ">>
      [] cls = "TriggerAnalysis" ->
             <<"create trigger ", "drop trigger ", "replace trigger ">>
      [] cls = "IndexAnalysis" -> <<"create index ", "drop index ", "recreate index ">>
      [] cls = "ConstraintAnalysis" ->
             <<"add constraint ", "drop constraint ", "replace constraint ">>
      [] cls = "FunctionAnalysis" ->
             <<"create function ", "drop function ", "replace function ">>
      [] cls = "ViewAnalysis" -> <<"create view ", "drop view ", "replace view ">>
      [] cls = "MaterializedViewAnalysis" ->
             <<"create materialized view ", "drop materialized view ",
               "replace materialized view ">>

action_description(row) ==
    LET verbs == ActionVerbs(row.cls)
        shown == IF row.cls = "SchemaAnalysis" THEN Join(row.name)
                 ELSE Join(full_name(row))
    IN  IF action(row) = ADD THEN verbs[1] \o shown
        ELSE IF action(row) = REMOVE THEN verbs[2] \o shown
        ELSE IF Len(verbs) > 2 /\ action(row) = MODIFY THEN verbs[3] \o shown
        ELSE ""

(***************************************************************************)
(* src/pgcmp/analysis.py: building the analysis tree                       *)
(***************************************************************************)
\* [f(key) for key in all_keys]
Comprehension(all_keys, f(_)) == [i \in 1..Len(all_keys) |-> f(all_keys[i])]

\* _build_summary counting only the objects whose schema the other snapshot
\* has too (the objects the tree can show).
_build_summary_shared_schemas(l_db, r_db) ==
    LET Shown(db, kind) ==
            Len(SelectSeq(db[kind],
                    LAMBDA e : \E name \in keys(l_db.schemas) \cap keys(r_db.schemas) :
                                   e.k = name \/ StartsWith(e.k, name \o Dot)))
        Row(object_type, kind) ==
            [object_type |-> object_type,
             left_count |-> Shown(l_db, kind), right_count |-> Shown(r_db, kind)]
    IN  <<Row("Schemas", "schemas"), Row("Tables", "tables"), Row("Columns", "columns"),
          Row("Indexes", "indexes"), Row("Constraints", "constraints"),
          Row("Views", "views"), Row("Triggers", "triggers"),
          Row("Functions", "functions"),
          Row("Materialized Views", "materialized_views"),
          Row("Sequences", "sequences")>>

_build_summary(l_db, r_db) ==
    <<[object_type |-> "Schemas",
       left_count |-> Len(l_db.schemas), right_count |-> Len(r_db.schemas)],
      [object_type |-> "Tables",
       left_count |-> Len(l_db.tables), right_count |-> Len(r_db.tables)],
      [object_type |-> "Columns",
       left_count |-> Len(l_db.columns), right_count |-> Len(r_db.columns)],
      [object_type |-> "Indexes",
       left_count |-> Len(l_db.indexes), right_count |-> Len(r_db.indexes)],
      [object_type |-> "Constraints",
       left_count |-> Len(l_db.constraints), right_count |-> Len(r_db.constraints)],
      [object_type |-> "Views",
       left_count |-> Len(l_db.views), right_count |-> Len(r_db.views)],
      [object_type |-> "Triggers",
       left_count |-> Len(l_db.triggers), right_count |-> Len(r_db.triggers)],
      [object_type |-> "Functions",
       left_count |-> Len(l_db.functions), right_count |-> Len(r_db.functions)],
      [object_type |-> "Materialized Views",
       left_count |-> Len(l_db.materialized_views),
       right_count |-> Len(r_db.materialized_views)],
      [object_type |-> "Sequences",
       left_count |-> Len(l_db.sequences), right_count |-> Len(r_db.sequences)]>>

\* A row of a class declared with schema_name only (views, materialized
\* views, functions).
\* A row of a class declared with schema_name only, with the object of each
\* side taken from the other side's dict.
SchemaLeafRow_objects_swapped(cls, name, schema_name, key, left_objs, right_objs) ==
    [cls |-> cls,
     name |-> name,
     schema_name |-> schema_name,
     in_left |-> key \in keys(left_objs),
     in_right |-> key \in keys(right_objs),
     left_object |-> DictGet(right_objs, key),
     right_object |-> DictGet(left_objs, key)]

SchemaLeafRow(cls, name, schema_name, key, left_objs, right_objs) ==
    [cls |-> cls,
     name |-> name,
     schema_name |-> schema_name,
     in_left |-> key \in keys(left_objs),
     in_right |-> key \in keys(right_objs),
     left_object |-> DictGet(left_objs, key),
     right_object |-> DictGet(right_objs, key)]

\* A row of a class declared with schema_name and table_name (columns,
\* triggers, indexes, constraints).
LeafRow(cls, name, schema_name, table_name, key, left_objs, right_objs) ==
    [table_name |-> table_name]
        @@ SchemaLeafRow(cls, name, schema_name, key, left_objs, right_objs)

\* _analyze_columns_for_table iterating over the left keys only.
_analyze_columns_for_table_left_keys(l_db, r_db, schema_name, table_name) ==
    LET table_key_prefix == schema_name \o Dot \o table_name \o Dot
        left_columns ==
            DictFilter(l_db.columns, LAMBDA key, col : StartsWith(key, table_key_prefix))
        right_columns ==
            DictFilter(r_db.columns, LAMBDA key, col : StartsWith(key, table_key_prefix))
        all_column_keys == sorted(keys(left_columns))
    IN  Comprehension(all_column_keys,
            LAMBDA key : LeafRow("ColumnAnalysis", SplitLast(key), schema_name,
                                 table_name, key, left_columns, right_columns))

_analyze_columns_for_table(l_db, r_db, schema_name, table_name) ==
    LET table_key_prefix == schema_name \o Dot \o table_name \o Dot
        left_columns ==
            DictFilter(l_db.columns, LAMBDA key, col : StartsWith(key, table_key_prefix))
        right_columns ==
            DictFilter(r_db.columns, LAMBDA key, col : StartsWith(key, table_key_prefix))
        all_column_keys == sorted(keys(left_columns) \cup keys(right_columns))
    IN  Comprehension(all_column_keys,
            LAMBDA key : LeafRow("ColumnAnalysis", SplitLast(key), schema_name,
                                 table_name, key, left_columns, right_columns))

_analyze_triggers_for_table(l_db, r_db, schema_name, table_name) ==
    LET left_triggers ==
            DictFilter(l_db.triggers,
                LAMBDA key, trig : /\ trig.event_object_schema = schema_name
                                   /\ trig.event_object_table = table_name)
        right_triggers ==
            DictFilter(r_db.triggers,
                LAMBDA key, trig : /\ trig.event_object_schema = schema_name
                                   /\ trig.event_object_table = table_name)
        all_trigger_keys == sorted(keys(left_triggers) \cup keys(right_triggers))
    IN  Comprehension(all_trigger_keys,
            LAMBDA key : LeafRow("TriggerAnalysis", SplitLast(key), schema_name,
                                 table_name, key, left_triggers, right_triggers))

_analyze_indexes_for_table(l_db, r_db, schema_name, table_name) ==
    LET left_indexes ==
            DictFilter(l_db.indexes,
                LAMBDA key, idx : /\ idx.schema_name = schema_name
                                  /\ idx.table_name = table_name)
        right_indexes ==
            DictFilter(r_db.indexes,
                LAMBDA key, idx : /\ idx.schema_name = schema_name
                                  /\ idx.table_name = table_name)
        all_index_keys == sorted(keys(left_indexes) \cup keys(right_indexes))
    IN  Comprehension(all_index_keys,
            LAMBDA key : LeafRow("IndexAnalysis", SplitOnceTail(key), schema_name,
                                 table_name, key, left_indexes, right_indexes))

_analyze_constraints_for_table(l_db, r_db, schema_name, table_name) ==
    LET left_constraints ==
            DictFilter(l_db.constraints,
                LAMBDA key, c : /\ c.table_schema = schema_name
                                /\ c.table_name = table_name)
        right_constraints ==
            DictFilter(r_db.constraints,
                LAMBDA key, c : /\ c.table_schema = schema_name
                                /\ c.table_name = table_name)
        all_constraint_keys == sorted(keys(left_constraints) \cup keys(right_constraints))
    IN  Comprehension(all_constraint_keys,
            LAMBDA key : LeafRow("ConstraintAnalysis", SplitOnceTail(key), schema_name,
                                 table_name, key, left_constraints, right_constraints))

_analyze_views_for_schema(l_db, r_db, schema_name) ==
    LET left_views ==
            DictFilter(l_db.views, LAMBDA key, v : v.table_schema = schema_name)
        right_views ==
            DictFilter(r_db.views, LAMBDA key, v : v.table_schema = schema_name)
        all_view_names == sorted(keys(left_views) \cup keys(right_views))
    IN  Comprehension(all_view_names,
            LAMBDA key : SchemaLeafRow("ViewAnalysis", SplitOnceTail(key), schema_name,
                                       key, left_views, right_views))

_analyze_materialized_views_for_schema(l_db, r_db, schema_name) ==
    LET left_matviews ==
            DictFilter(l_db.materialized_views,
                LAMBDA key, mv : mv.schema_name = schema_name)
        right_matviews ==
            DictFilter(r_db.materialized_views,
                LAMBDA key, mv : mv.schema_name = schema_name)
        all_matview_names == sorted(keys(left_matviews) \cup keys(right_matviews))
    IN  Comprehension(all_matview_names,
            LAMBDA key : SchemaLeafRow("MaterializedViewAnalysis", SplitOnceTail(key),
                                       schema_name, key, left_matviews, right_matviews))

_analyze_functions_for_schema(l_db, r_db, schema_name) ==
    LET left_funcs ==
            DictFilter(l_db.functions, LAMBDA key, f : f.schema_name = schema_name)
        right_funcs ==
            DictFilter(r_db.functions, LAMBDA key, f : f.schema_name = schema_name)
        all_func_keys == sorted(keys(left_funcs) \cup keys(right_funcs))
    IN  Comprehension(all_func_keys,
            LAMBDA key : SchemaLeafRow("FunctionAnalysis", SplitOnceTail(key), schema_name,
                                       key, left_funcs, right_funcs))

_analyze_tables_for_schema(l_db, r_db, schema_name) ==
    LET left_tables ==
            DictFilter(l_db.tables, LAMBDA key, tbl : tbl.table_schema = schema_name)
        right_tables ==
            DictFilter(r_db.tables, LAMBDA key, tbl : tbl.table_schema = schema_name)
        all_table_names == sorted(keys(left_tables) \cup keys(right_tables))
        table_analysis(key) ==
            LET table_name == SplitOnceTail(key)
                in_left == key \in keys(left_tables)
                in_right == key \in keys(right_tables)
                expand == in_left /\ in_right
            IN  [cls |-> "TableAnalysis",
                 name |-> table_name,
                 schema_name |-> schema_name,
                 in_left |-> in_left,
                 in_right |-> in_right,
                 left_object |-> DictGet(left_tables, key),
                 right_object |-> DictGet(right_tables, key),
                 columns |->
                     IF expand
                     THEN _analyze_columns_for_table(l_db, r_db, schema_name, table_name)
                     ELSE <<>>,
                 triggers |->
                     IF expand
                     THEN _analyze_triggers_for_table(l_db, r_db, schema_name, table_name)
                     ELSE <<>>,
                 indexes |->
                     IF expand
                     THEN _analyze_indexes_for_table(l_db, r_db, schema_name, table_name)
                     ELSE <<>>,
                 constraints |->
                     IF expand
                     THEN _analyze_constraints_for_table(l_db, r_db, schema_name,
                                                         table_name)
                     ELSE <<>>]
    IN  Comprehension(all_table_names, table_analysis)

\* _analyze_schemas without sorted(): the names in the order the two dicts
\* yield them.
_analyze_schemas_unsorted(l_db, r_db) ==
    LET left_names == [i \in 1..Len(l_db.schemas) |-> l_db.schemas[i].k]
        right_names == [i \in 1..Len(r_db.schemas) |-> r_db.schemas[i].k]
        all_schema_names ==
            left_names \o SelectSeq(right_names, LAMBDA n : n \notin keys(l_db.schemas))
    IN  Comprehension(all_schema_names,
            LAMBDA name : [cls |-> "SchemaAnalysis",
                           name |-> name,
                           in_left |-> name \in keys(l_db.schemas),
                           in_right |-> name \in keys(r_db.schemas),
                           left_object |-> None,
                           right_object |-> None,
                           tables |-> <<>>,
                           views |-> <<>>,
                           materialized_views |-> <<>>,
                           functions |-> <<>>])

\* SchemaAnalysis(name, in_left, in_right): objects stay None, child lists
\* start empty.
_analyze_schemas(l_db, r_db) ==
    LET all_schema_names == sorted(keys(l_db.schemas) \cup keys(r_db.schemas))
    IN  Comprehension(all_schema_names,
            LAMBDA name : [cls |-> "SchemaAnalysis",
                           name |-> name,
                           in_left |-> name \in keys(l_db.schemas),
                           in_right |-> name \in keys(r_db.schemas),
                           left_object |-> None,
                           right_object |-> None,
                           tables |-> <<>>,
                           views |-> <<>>,
                           materialized_views |-> <<>>,
                           functions |-> <<>>])

\* Step 3 of analyze_databases expanding a schema present on either side.
ExpandSchema_either_side(l_db, r_db, schema) ==
    IF schema.in_left \/ schema.in_right
    THEN [schema EXCEPT
            !.tables = _analyze_tables_for_schema(l_db, r_db, schema.name),
            !.views = _analyze_views_for_schema(l_db, r_db, schema.name),
            !.materialized_views =
                _analyze_materialized_views_for_schema(l_db, r_db, schema.name),
            !.functions = _analyze_functions_for_schema(l_db, r_db, schema.name)]
    ELSE schema

\* Step 3 of analyze_databases for one schema row.
ExpandSchema(l_db, r_db, schema) ==
    IF schema.in_left /\ schema.in_right
    THEN [schema EXCEPT
            !.tables = _analyze_tables_for_schema(l_db, r_db, schema.name),
            !.views = _analyze_views_for_schema(l_db, r_db, schema.name),
            !.materialized_views =
                _analyze_materialized_views_for_schema(l_db, r_db, schema.name),
            !.functions = _analyze_functions_for_schema(l_db, r_db, schema.name)]
    ELSE schema

\* analyze_databases giving up on the tree when the version strings of the
\* two snapshots differ.
analyze_databases_same_version_only(l_db, r_db) ==
    LET schemas == _analyze_schemas(l_db, r_db)
    IN  [summary |-> _build_summary(l_db, r_db),
         schemas |-> IF l_db.postgres_version # r_db.postgres_version THEN <<>>
                     ELSE Comprehension(schemas,
                              LAMBDA schema : ExpandSchema(l_db, r_db, schema))]

\* The AnalysisResult; its left_db / right_db fields are references to the
\* two snapshots and are read from the state.
analyze_databases(l_db, r_db) ==
    LET schemas == _analyze_schemas(l_db, r_db)
    IN  [summary |-> _build_summary(l_db, r_db),
         schemas |-> Comprehension(schemas, LAMBDA schema : ExpandSchema(l_db, r_db, schema))]

\* has_differences() answering from the tree as analyze_databases built it.
has_differences_as_built(res) ==
    LET built == analyze_databases(left_db, right_db)
    IN  \E i \in 1..Len(built.schemas) : SchemaAnalysis_is_different(built.schemas[i])

has_differences(res) ==
    \E i \in 1..Len(res.schemas) : SchemaAnalysis_is_different(res.schemas[i])

\* sum(1 for row in rows if row.is_different)
CountDifferent(rows) ==
    Cardinality({i \in 1..Len(rows) : AnalysisRow_is_different(rows[i])})

RECURSIVE SumSeq(_)
SumSeq(ns) == IF Len(ns) = 0 THEN 0 ELSE ns[1] + SumSeq(Tail(ns))

\* The body of the loop over schema.tables in count_differences.
\* The body of the loop over schema.tables in count_differences without the
\* loop over the triggers.
CountTable_no_triggers(table) ==
    (IF table.in_left # table.in_right THEN 1 ELSE 0)
    + CountDifferent(table.columns)
    + CountDifferent(table.indexes)
    + CountDifferent(table.constraints)

CountTable(table) ==
    (IF table.in_left # table.in_right THEN 1 ELSE 0)
    + CountDifferent(table.columns)
    + CountDifferent(table.indexes)
    + CountDifferent(table.constraints)
    + CountDifferent(table.triggers)

\* The loop body counting a schema whenever it is different.
CountSchema_is_different(schema) ==
    (IF SchemaAnalysis_is_different(schema) THEN 1 ELSE 0)
    + SumSeq(Comprehension(schema.tables, CountTable))
    + CountDifferent(schema.views)
    + CountDifferent(schema.materialized_views)
    + CountDifferent(schema.functions)

\* The body of the loop over self.schemas in count_differences.
CountSchema(schema) ==
    (IF schema.in_left # schema.in_right THEN 1 ELSE 0)
    + SumSeq(Comprehension(schema.tables, CountTable))
    + CountDifferent(schema.views)
    + CountDifferent(schema.materialized_views)
    + CountDifferent(schema.functions)

count_differences(res) == SumSeq(Comprehension(res.schemas, CountSchema))

(***************************************************************************)
(* src/pgcmp/db/*.py: gathering a snapshot                                 *)
(***************************************************************************)
Digits == {"0", "1", "2", "3", "4", "5", "6", "7", "8", "9"}

\* The rest of s after a greedy \d+, or None when s starts with no digit.
AfterDigits(s) ==
    IF Len(s) = 0 \/ s[1] \notin Digits THEN None
    ELSE IF \E i \in 1..Len(s) : s[i] \notin Digits
         THEN Some(SubSeq(s, CHOOSE i \in 1..Len(s) :
                                 /\ s[i] \notin Digits
                                 /\ \A j \in 1..(i - 1) : s[j] \in Digits,
                          Len(s)))
         ELSE Some(<<>>)

\* The rest of s after \d+_ , or None.
AfterDigitsUnderscore(o) ==
    IF IsNone(o) THEN None
    ELSE LET r == AfterDigits(Val(o))
         IN  IF IsNone(r) \/ Len(Val(r)) = 0 \/ Val(r)[1] # "_" THEN None
             ELSE Some(Tail(Val(r)))

NotNullSuffix == <<"n", "o", "t", "_", "n", "u", "l", "l">>

\* AUTO_GENERATED_CONSTRAINT_RE.match(name): ^\d+_\d+_\d+_not_null$, where $
\* also matches before one trailing newline.
AUTO_GENERATED_CONSTRAINT_RE(name) ==
    LET r == AfterDigitsUnderscore(AfterDigitsUnderscore(AfterDigitsUnderscore(Some(name))))
    IN  /\ ~IsNone(r)
        /\ Val(r) \in {NotNullSuffix, NotNullSuffix \o <<"\n">>}

\* for row in cur.fetchall(): objs[obj.key] = obj, over rows already paired
\* with their keys.
RECURSIVE FetchLoop(_)
FetchLoop(entries) ==
    IF Len(entries) = 0 THEN EmptyDict
    ELSE LET last == entries[Len(entries)]
         IN  DictSet(FetchLoop(SubSeq(entries, 1, Len(entries) - 1)), last.k, last.v)

Keyed(rows, key(_)) == [i \in 1..Len(rows) |-> [k |-> key(rows[i]), v |-> rows[i]]]

fetch_schemas(rows) == FetchLoop(Keyed(rows, Schema_key))

fetch_tables(rows) == FetchLoop(Keyed(rows, Table_key))

fetch_columns(rows) == FetchLoop(Keyed(rows, Column_key))

fetch_indexes(rows) == FetchLoop(Keyed(rows, Index_key))

\* fetch_constraints without the skip of auto-generated names.
fetch_constraints_unfiltered(rows) == FetchLoop(Keyed(rows, Constraint_key))

fetch_constraints(rows) ==
    FetchLoop(Keyed(SelectSeq(rows,
                              LAMBDA row : ~AUTO_GENERATED_CONSTRAINT_RE(row.constraint_name)),
                    Constraint_key))

fetch_views(rows) == FetchLoop(Keyed(rows, View_key))

fetch_triggers(rows) == FetchLoop(Keyed(rows, Trigger_key))

fetch_functions(rows) == FetchLoop(Keyed(rows, Function_key))

fetch_materialized_views(rows) == FetchLoop(Keyed(rows, MaterializedView_key))

fetch_sequences(rows) == FetchLoop(Keyed(rows, Sequence_key))

\* _fetch_postgres_version: row[0] if row else "", for the row (or None) that
\* SELECT version() returns.
_fetch_postgres_version(row) == IF Truthy(row) THEN Val(row) ELSE <<>>

PostgreSQL_ ==
    <<"P", "o", "s", "t", "g", "r", "e", "S", "Q", "L", " ">>

\* The length of the run of digits of s that starts at position p.
DigitRun(s, p) ==
    IF p > Len(s) \/ s[p] \notin Digits THEN 0
    ELSE IF \E j \in p..Len(s) : s[j] \notin Digits
         THEN (CHOOSE j \in p..Len(s) :
                   /\ s[j] \notin Digits
                   /\ \A k \in p..(j - 1) : s[k] \in Digits) - p
         ELSE Len(s) - p + 1

\* _extract_major_version: group 1 of the leftmost match of
\* PostgreSQL (\d+(?:\.\d+)?) in version_string, "" without a match.
_extract_major_version(version_string) ==
    LET n == Len(PostgreSQL_)
        starts == {i \in 1..Len(version_string) :
                      /\ i + n <= Len(version_string)
                      /\ SubSeq(version_string, i, i + n - 1) = PostgreSQL_
                      /\ version_string[i + n] \in Digits}
    IN  IF starts = {} THEN <<>>
        ELSE LET p == (CHOOSE i \in starts : \A j \in starts : i <= j) + n
                 q == p + DigitRun(version_string, p)
                 fraction ==
                     IF /\ q <= Len(version_string)
                        /\ version_string[q] = "."
                        /\ DigitRun(version_string, q + 1) > 0
                     THEN 1 + DigitRun(version_string, q + 1)
                     ELSE 0
             IN  SubSeq(version_string, p, q + fraction - 1)

\* Database.major_version
major_version(db) == _extract_major_version(db.postgres_version)

\* Database(connection_string): every collection empty.
Database ==
    [postgres_version |-> <<>>,
     schemas |-> EmptyDict,
     tables |-> EmptyDict,
     columns |-> EmptyDict,
     indexes |-> EmptyDict,
     constraints |-> EmptyDict,
     views |-> EmptyDict,
     triggers |-> EmptyDict,
     functions |-> EmptyDict,
     materialized_views |-> EmptyDict,
     sequences |-> EmptyDict,
     row_counts_before_sql |-> EmptyDict]

\* Database.fetch_all without apply_sql, on a server whose catalog queries
\* return the rows of cat.
fetch_all(cat) ==
    [Database EXCEPT
        !.postgres_version = _fetch_postgres_version(cat.version),
        !.schemas = fetch_schemas(cat.schemas),
        !.tables = fetch_tables(cat.tables),
        !.columns = fetch_columns(cat.columns),
        !.indexes = fetch_indexes(cat.indexes),
        !.constraints = fetch_constraints(cat.constraints),
        !.views = fetch_views(cat.views),
        !.triggers = fetch_triggers(cat.triggers),
        !.functions = fetch_functions(cat.functions),
        !.materialized_views = fetch_materialized_views(cat.materialized_views),
        !.sequences = fetch_sequences(cat.sequences)]

(***************************************************************************)
(* The two servers: the catalogs a snapshot can be gathered from           *)
(***************************************************************************)
Public ==
    <<"p", "u", "b", "l", "i", "c">>

Audit ==
    <<"a", "u", "d", "i", "t">>

Users ==
    <<"u", "s", "e", "r", "s">>

Orders ==
    <<"o", "r", "d", "e", "r", "s">>

Log ==
    <<"l", "o", "g">>

\* Constraint definitions as pg_get_constraintdef() prints them.
CheckAge ==
    <<"C", "H", "E", "C", "K", " ", "(", "(", "a", "g", "e", " ", ">", "=", " ", "0",
      ")", ")">>

CheckAgeIntegerCast ==
    <<"C", "H", "E", "C", "K", " ", "(", "(", "a", "g", "e", ")", ":", ":", "i", "n",
      "t", "e", "g", "e", "r", " ", ">", "=", " ", "0", ")">>

CheckAgeTextCast ==
    <<"C", "H", "E", "C", "K", " ", "(", "(", "a", "g", "e", ")", ":", ":", "t", "e",
      "x", "t", " ", ">", "=", " ", "0", ")">>

\* Two printings of one index definition that differ in whitespace only.
IndexDef ==
    <<"C", "R", "E", "A", "T", "E", " ", "I", "N", "D", "E", "X", " ", "i", "x", " ",
      "O", "N", " ", "u", "s", "e", "r", "s", " ", "(", "i", "d", ")">>

IndexDefSpaced ==
    <<"C", "R", "E", "A", "T", "E", " ", "I", "N", "D", "E", "X", " ", "i", "x", " ",
      "O", "N", " ", "u", "s", "e", "r", "s", " ", " ", "(", "i", "d", ")">>

\* Two printings of one view body that differ in whitespace and punctuation.
ViewDef ==
    <<"S", "E", "L", "E", "C", "T", " ", "i", "d", " ", "F", "R", "O", "M", " ", "u",
      "s", "e", "r", "s", ";">>

ViewDefIndented ==
    <<" ", "S", "E", "L", "E", "C", "T", " ", "i", "d", "\n", " ", "F", "R", "O", "M",
      " ", "u", "s", "e", "r", "s">>

SchemaRow(name) == [schema_name |-> name, schema_owner |-> "postgres"]

TableRow(schema, name) ==
    [table_schema |-> schema,
     table_name |-> name,
     table_type |-> "BASE TABLE",
     row_count |-> Some(0)]

ColumnRow(schema, table, name, data_type) ==
    [table_schema |-> schema,
     table_name |-> table,
     column_name |-> name,
     column_default |-> None,
     is_nullable |-> "NO",
     data_type |-> data_type,
     character_maximum_length |-> None,
     numeric_precision |-> Some(32),
     numeric_scale |-> Some(0)]

IndexRow(index_definition) ==
    [schema_name |-> Public,
     table_name |-> Users,
     index_name |-> <<"i", "x">>,
     is_unique |-> FALSE,
     is_primary |-> FALSE,
     index_definition |-> index_definition]

ConstraintRow(constraint_definition) ==
    [constraint_schema |-> Public,
     constraint_name |-> <<"a", "g", "e", "_", "c", "h", "e", "c", "k">>,
     table_schema |-> Public,
     table_name |-> Users,
     constraint_type |-> "CHECK",
     constraint_definition |-> Some(constraint_definition)]

TriggerRow(action_statement) ==
    [trigger_schema |-> Public,
     trigger_name |-> <<"t", "r", "g">>,
     event_manipulation |-> "INSERT",
     event_object_schema |-> Public,
     event_object_table |-> Users,
     action_timing |-> "BEFORE",
     action_orientation |-> "ROW",
     action_statement |-> action_statement]

ViewRow(view_definition) ==
    [table_schema |-> Public,
     table_name |-> <<"v">>,
     view_definition |-> Some(view_definition),
     is_updatable |-> "YES",
     is_insertable_into |-> "YES"]

MaterializedViewRow(definition) ==
    [schema_name |-> Public,
     matview_name |-> <<"m", "v">>,
     definition |-> definition,
     has_indexes |-> FALSE,
     is_populated |-> TRUE]

FunctionRow(function_definition) ==
    [schema_name |-> Public,
     function_name |-> <<"f">>,
     function_type |-> "function",
     argument_types |-> <<"i", "n", "t">>,
     return_type |-> Some("void"),
     function_definition |-> Some(function_definition),
     language |-> "plpgsql",
     is_strict |-> FALSE,
     volatility |-> "VOLATILE"]

SequenceRow ==
    [sequence_schema |-> Public,
     sequence_name |-> <<"s", "q">>,
     data_type |-> "bigint",
     start_value |-> 1,
     minimum_value |-> 1,
     maximum_value |-> 9,
     increment |-> 1,
     cycle_option |-> "NO"]

\* What a server holds above the leaf objects: its schemas and its tables.
Skeletons ==
    {[schemas |-> {SchemaRow(Public)},
      tables |-> {}],
     [schemas |-> {SchemaRow(Public)},
      tables |-> {TableRow(Public, Users)}],
     [schemas |-> {SchemaRow(Public)},
      tables |-> {TableRow(Public, Users), TableRow(Public, Orders)}],
     [schemas |-> {SchemaRow(Public), SchemaRow(Audit)},
      tables |-> {TableRow(Public, Users), TableRow(Audit, Log)}]}

\* The leaf objects a server can hold, each with the key of the table (or the
\* name of the schema) it lives in.  Rows of one kind with the same name are
\* the variants of one object.
LeafRows ==
    {[kind |-> "columns", parent |-> Table_key(TableRow(Public, Users)),
      obj |-> ColumnRow(Public, Users, <<"i", "d">>, "integer")],
     [kind |-> "columns", parent |-> Table_key(TableRow(Public, Users)),
      obj |-> ColumnRow(Public, Users, <<"i", "d">>, "bigint")],
     [kind |-> "columns", parent |-> Table_key(TableRow(Public, Users)),
      obj |-> ColumnRow(Public, Users, <<"a", "g", "e">>, "integer")],
     [kind |-> "columns", parent |-> Table_key(TableRow(Public, Orders)),
      obj |-> ColumnRow(Public, Orders, <<"i", "d">>, "integer")],
     [kind |-> "columns", parent |-> Table_key(TableRow(Audit, Log)),
      obj |-> ColumnRow(Audit, Log, <<"i", "d">>, "integer")],
     [kind |-> "indexes", parent |-> Table_key(TableRow(Public, Users)),
      obj |-> IndexRow(IndexDef)],
     [kind |-> "indexes", parent |-> Table_key(TableRow(Public, Users)),
      obj |-> IndexRow(IndexDefSpaced)],
     [kind |-> "constraints", parent |-> Table_key(TableRow(Public, Users)),
      obj |-> ConstraintRow(CheckAge)],
     [kind |-> "constraints", parent |-> Table_key(TableRow(Public, Users)),
      obj |-> ConstraintRow(CheckAgeIntegerCast)],
     [kind |-> "constraints", parent |-> Table_key(TableRow(Public, Users)),
      obj |-> ConstraintRow(CheckAgeTextCast)],
     [kind |-> "triggers", parent |-> Table_key(TableRow(Public, Users)),
      obj |-> TriggerRow("EXECUTE FUNCTION f()")],
     [kind |-> "triggers", parent |-> Table_key(TableRow(Public, Users)),
      obj |-> TriggerRow("EXECUTE FUNCTION g()")],
     [kind |-> "views", parent |-> Public, obj |-> ViewRow(ViewDef)],
     [kind |-> "views", parent |-> Public, obj |-> ViewRow(ViewDefIndented)],
     [kind |-> "materialized_views", parent |-> Public,
      obj |-> MaterializedViewRow(ViewDef)],
     [kind |-> "materialized_views", parent |-> Public,
      obj |-> MaterializedViewRow(ViewDefIndented)],
     [kind |-> "functions", parent |-> Public, obj |-> FunctionRow("BEGIN END")],
     [kind |-> "functions", parent |-> Public, obj |-> FunctionRow("BEGIN NULL; END")],
     [kind |-> "sequences", parent |-> Public, obj |-> SequenceRow]}

\* The composite key of a leaf row, tagged with its kind.
LeafKey(row) ==
    <<row.kind,
      CASE row.kind = "columns" -> Column_key(row.obj)
        [] row.kind = "indexes" -> Index_key(row.obj)
        [] row.kind = "constraints" -> Constraint_key(row.obj)
        [] row.kind = "triggers" -> Trigger_key(row.obj)
        [] row.kind = "views" -> View_key(row.obj)
        [] row.kind = "materialized_views" -> MaterializedView_key(row.obj)
        [] row.kind = "functions" -> Function_key(row.obj)
        [] row.kind = "sequences" -> Sequence_key(row.obj)>>

\* The number of distinct leaf objects (over both servers) of a run.
MaxLeafKeys == 2

\* The sets of at most n leaf rows.
RECURSIVE LeafSetsUpTo(_)
LeafSetsUpTo(n) ==
    IF n = 0 THEN {{}}
    ELSE LET smaller == LeafSetsUpTo(n - 1)
         IN  smaller \cup {rows \cup {row} : rows \in smaller, row \in LeafRows}

\* A server's content: every leaf lives in a schema or table the server has,
\* and no two objects of one kind have the same name.
Contents ==
    {c \in [skeleton : Skeletons, leaves : LeafSetsUpTo(MaxLeafKeys)] :
        /\ \A row \in c.leaves :
               \/ row.parent \in {Schema_key(x) : x \in c.skeleton.schemas}
               \/ row.parent \in {Table_key(x) : x \in c.skeleton.tables}
        /\ \A r1, r2 \in c.leaves : LeafKey(r1) = LeafKey(r2) => r1 = r2}

\* The rows a catalog query returns, in the order of their keys.
Cursor(rows, key(_)) ==
    LET ks == sorted({key(row) : row \in rows})
    IN  [i \in 1..Len(ks) |-> CHOOSE row \in rows : key(row) = ks[i]]

Objects(c, kind) == {row.obj : row \in {r \in c.leaves : r.kind = kind}}

\* The version strings of the servers.
PostgreSQL_16_1 ==
    <<"P", "o", "s", "t", "g", "r", "e", "S", "Q", "L", " ", "1", "6", ".",
      "1", " ", "o", "n", " ", "x", "8", "6", "_", "6", "4", "-", "p", "c",
      "-", "l", "i", "n", "u", "x", "-", "g", "n", "u">>

PostgreSQL_16_2 ==
    <<"P", "o", "s", "t", "g", "r", "e", "S", "Q", "L", " ", "1", "6", ".",
      "2", " ", "o", "n", " ", "x", "8", "6", "_", "6", "4", "-", "p", "c",
      "-", "l", "i", "n", "u", "x", "-", "g", "n", "u">>

PostgreSQL_15_4 ==
    <<"P", "o", "s", "t", "g", "r", "e", "S", "Q", "L", " ", "1", "5", ".",
      "4", " ", "(", "D", "e", "b", "i", "a", "n", " ", "1", "5", ".", "4",
      "-", "1", ")">>

PostgreSQL_17beta1 ==
    <<"P", "o", "s", "t", "g", "r", "e", "S", "Q", "L", " ", "1", "7", "b",
      "e", "t", "a", "1", " ", "o", "n", " ", "x", "8", "6", "_", "6", "4",
      "-", "p", "c", "-", "l", "i", "n", "u", "x", "-", "g", "n", "u">>

PostgreSQL_9_6_24 ==
    <<"P", "o", "s", "t", "g", "r", "e", "S", "Q", "L", " ", "9", ".", "6",
      ".", "2", "4", " ", "o", "n", " ", "x", "8", "6", "_", "6", "4", "-",
      "p", "c", "-", "l", "i", "n", "u", "x", "-", "g", "n", "u">>

\* What SELECT version() returns: a row with a version string, or no row.
VersionRows ==
    {None, Some(PostgreSQL_16_1), Some(PostgreSQL_16_2), Some(PostgreSQL_15_4),
     Some(PostgreSQL_17beta1), Some(PostgreSQL_9_6_24)}

\* What the queries of fetch_all return on a server with content c whose
\* SELECT version() returns version_row.
CatalogOf(c, version_row) ==
    [version |-> version_row,
     schemas |-> Cursor(c.skeleton.schemas, Schema_key),
     tables |-> Cursor(c.skeleton.tables, Table_key),
     columns |-> Cursor(Objects(c, "columns"), Column_key),
     indexes |-> Cursor(Objects(c, "indexes"), Index_key),
     constraints |-> Cursor(Objects(c, "constraints"), Constraint_key),
     views |-> Cursor(Objects(c, "views"), View_key),
     triggers |-> Cursor(Objects(c, "triggers"), Trigger_key),
     functions |-> Cursor(Objects(c, "functions"), Function_key),
     materialized_views |-> Cursor(Objects(c, "materialized_views"),
                                   MaterializedView_key),
     sequences |-> Cursor(Objects(c, "sequences"), Sequence_key)]

Catalog(c) == CatalogOf(c, Some(PostgreSQL_16_1))

\* The keys of the leaf objects of a snapshot, tagged with their kinds.
SnapshotLeafKeys(db) ==
    UNION {{<<kind, key>> : key \in keys(db[kind])} :
              kind \in {"columns", "indexes", "constraints", "triggers", "views",
                        "materialized_views", "functions", "sequences"}}

\* AnalysisResult.versions_differ, for the snapshots the result refers to.
versions_differ(l_db, r_db) == major_version(l_db) # major_version(r_db)

\* AnalysisResult.version_warning
version_warning(l_db, r_db) ==
    IF ~versions_differ(l_db, r_db) THEN None
    ELSE Some("Warning: PostgreSQL versions differ "
              \o "(left: " \o Join(major_version(l_db))
              \o ", right: " \o Join(major_version(r_db)) \o "). "
              \o "Some differences may be due to version-specific output formatting.")

(***************************************************************************)
(* src/main.py: main() without --apply-sql-file                            *)
(***************************************************************************)
\* AnalysisResult(left_db, right_db): summary and schemas start empty.
AnalysisResult == [summary |-> <<>>, schemas |-> <<>>]

Init ==
    /\ left_db = Database
    /\ right_db = Database
    /\ result = AnalysisResult
    /\ pc = "connect_left"
    /\ console = <<>>
    /\ definition_in = None
    /\ normalized = <<>>

\* left_db = Database.from_connection_string(NEW_CONNECTION_STRING)
ConnectLeft ==
    /\ pc = "connect_left"
    /\ \E c \in Contents : left_db' = fetch_all(Catalog(c))
    /\ pc' = "connect_right"
    /\ UNCHANGED <<right_db, result, console, definition_in, normalized>>

\* right_db = Database.from_connection_string(OLD_CONNECTION_STRING)
ConnectRight ==
    /\ pc = "connect_right"
    /\ \E c \in Contents :
           /\ right_db' = fetch_all(Catalog(c))
           /\ Cardinality(SnapshotLeafKeys(left_db) \cup SnapshotLeafKeys(right_db'))
                  <= MaxLeafKeys
    /\ pc' = "analyze"
    /\ UNCHANGED <<left_db, result, console, definition_in, normalized>>

\* Database.from_connection_string raises for the left database: main()
\* reports the error and returns 1.
ConnectLeftError ==
    /\ pc = "connect_left"
    /\ pc' = "return_1"
    /\ UNCHANGED <<left_db, right_db, result, console, definition_in, normalized>>

\* Database.from_connection_string raises for the right database: main()
\* reports the error and returns 1.
ConnectRightError ==
    /\ pc = "connect_right"
    /\ pc' = "return_1"
    /\ UNCHANGED <<left_db, right_db, result, console, definition_in, normalized>>

\* The analysis taking the constraints out of the left snapshot as it
\* reconciles them.
Analyze_consuming ==
    /\ pc = "analyze"
    /\ result' = analyze_databases(left_db, right_db)
    /\ left_db' = [left_db EXCEPT !.constraints = EmptyDict]
    /\ pc' = "report"
    /\ UNCHANGED <<right_db, console, definition_in, normalized>>

\* result = analyze_databases(left_db, right_db)
Analyze ==
    /\ pc = "analyze"
    /\ result' = analyze_databases(left_db, right_db)
    /\ pc' = "report"
    /\ UNCHANGED <<left_db, right_db, console, definition_in, normalized>>

Next ==
    ConnectLeft \/ ConnectLeftError \/ ConnectRight \/ ConnectRightError \/ Analyze

Spec == Init /\ [][Next]_vars

(***************************************************************************)
(* main() on servers of any version, through the display of the version    *)
(* warning                                                                 *)
(***************************************************************************)
\* The contents of the servers: at most the column users.id, in its variants.
VersionContents ==
    {c \in Contents :
        /\ Cardinality(c.leaves) <= 1
        /\ \A row \in c.leaves :
               /\ row.kind = "columns"
               /\ row.parent = Table_key(TableRow(Public, Users))
               /\ row.obj.column_name = <<"i", "d">>}

ConnectLeftVersion ==
    /\ pc = "connect_left"
    /\ \E c \in VersionContents, version_row \in VersionRows :
           left_db' = fetch_all(CatalogOf(c, version_row))
    /\ pc' = "connect_right"
    /\ UNCHANGED <<right_db, result, console, definition_in, normalized>>

ConnectRightVersion ==
    /\ pc = "connect_right"
    /\ \E c \in VersionContents, version_row \in VersionRows :
           right_db' = fetch_all(CatalogOf(c, version_row))
    /\ pc' = "analyze"
    /\ UNCHANGED <<left_db, result, console, definition_in, normalized>>

\* if result.version_warning: console.print(...)
DisplayVersionWarning ==
    /\ pc = "report"
    /\ console' = IF Truthy(version_warning(left_db, right_db))
                  THEN Append(console, Val(version_warning(left_db, right_db)))
                  ELSE console
    /\ pc' = "display"
    /\ UNCHANGED <<left_db, right_db, result, definition_in, normalized>>

VersionNext ==
    \/ ConnectLeftVersion
    \/ ConnectLeftError
    \/ ConnectRightVersion
    \/ ConnectRightError
    \/ Analyze
    \/ DisplayVersionWarning

SpecVersion == Init /\ [][VersionNext]_vars

(***************************************************************************)
(* The child lists of the tree changed after analyze_databases has         *)
(* returned, then the difference state read                                *)
(***************************************************************************)
\* The contents of the servers: the schema public, with or without the table
\* users and its column id.
MutationContents ==
    {c \in VersionContents : c.skeleton.tables \subseteq {TableRow(Public, Users)}}

ConnectLeftSmall ==
    /\ pc = "connect_left"
    /\ \E c \in MutationContents : left_db' = fetch_all(Catalog(c))
    /\ pc' = "connect_right"
    /\ UNCHANGED <<right_db, result, console, definition_in, normalized>>

ConnectRightSmall ==
    /\ pc = "connect_right"
    /\ \E c \in MutationContents : right_db' = fetch_all(Catalog(c))
    /\ pc' = "analyze"
    /\ UNCHANGED <<left_db, result, console, definition_in, normalized>>

\* The collections a child row can be built from: none, one or the other
\* variant of the object.
IdColumns ==
    {fetch_columns(rows) :
        rows \in {<<>>, <<ColumnRow(Public, Users, <<"i", "d">>, "integer")>>,
                  <<ColumnRow(Public, Users, <<"i", "d">>, "bigint")>>}}

VViews == {fetch_views(rows) : rows \in {<<>>, <<ViewRow(ViewDef)>>}}

\* The ColumnAnalysis rows for users.id (an ADD, a NONE and a MODIFY row) and
\* the ViewAnalysis rows for v (an ADD and a NONE row).
ColumnChildren ==
    LET key == Column_key(ColumnRow(Public, Users, <<"i", "d">>, "integer"))
        l == fetch_columns(<<ColumnRow(Public, Users, <<"i", "d">>, "integer")>>)
    IN  {LeafRow("ColumnAnalysis", SplitLast(key), Public, Users, key, l, r) :
            r \in IdColumns}

ViewChildren ==
    LET key == View_key(ViewRow(ViewDef))
        l == fetch_views(<<ViewRow(ViewDef)>>)
    IN  {SchemaLeafRow("ViewAnalysis", SplitOnceTail(key), Public, key, l, r) :
            r \in VViews}

\* The length a child list is changed up to.
MaxChildren == 2

\* table.columns.append(row)
AppendColumn ==
    /\ pc = "report"
    /\ \E i \in 1..Len(result.schemas) :
           \E j \in 1..Len(result.schemas[i].tables), row \in ColumnChildren :
               /\ Len(result.schemas[i].tables[j].columns) < MaxChildren
               /\ result' = [result EXCEPT
                                !.schemas[i].tables[j].columns = Append(@, row)]
    /\ UNCHANGED <<left_db, right_db, pc, console, definition_in, normalized>>

\* del table.columns[k]
RemoveColumn ==
    /\ pc = "report"
    /\ \E i \in 1..Len(result.schemas) :
           \E j \in 1..Len(result.schemas[i].tables) :
               \E k \in 1..Len(result.schemas[i].tables[j].columns) :
                   result' = [result EXCEPT
                                 !.schemas[i].tables[j].columns =
                                     SubSeq(@, 1, k - 1) \o SubSeq(@, k + 1, Len(@))]
    /\ UNCHANGED <<left_db, right_db, pc, console, definition_in, normalized>>

\* table.columns[k] = row
ReplaceColumn ==
    /\ pc = "report"
    /\ \E i \in 1..Len(result.schemas) :
           \E j \in 1..Len(result.schemas[i].tables), row \in ColumnChildren :
               \E k \in 1..Len(result.schemas[i].tables[j].columns) :
                   result' = [result EXCEPT !.schemas[i].tables[j].columns[k] = row]
    /\ UNCHANGED <<left_db, right_db, pc, console, definition_in, normalized>>

\* schema.views.append(row)
AppendView ==
    /\ pc = "report"
    /\ \E i \in 1..Len(result.schemas), row \in ViewChildren :
           /\ Len(result.schemas[i].views) < MaxChildren
           /\ result' = [result EXCEPT !.schemas[i].views = Append(@, row)]
    /\ UNCHANGED <<left_db, right_db, pc, console, definition_in, normalized>>

\* del schema.views[k]
RemoveView ==
    /\ pc = "report"
    /\ \E i \in 1..Len(result.schemas) :
           \E k \in 1..Len(result.schemas[i].views) :
               result' = [result EXCEPT
                             !.schemas[i].views =
                                 SubSeq(@, 1, k - 1) \o SubSeq(@, k + 1, Len(@))]
    /\ UNCHANGED <<left_db, right_db, pc, console, definition_in, normalized>>

\* A read of is_different on every schema and table, of has_differences()
\* and of count_differences(); console holds what the read returned.
ReadDifferences ==
    /\ pc = "report"
    /\ console' =
           <<[has_differences |-> has_differences(result),
              count_differences |-> count_differences(result),
              schemas |-> [i \in 1..Len(result.schemas) |->
                              is_different(result.schemas[i])],
              tables |-> [i \in 1..Len(result.schemas) |->
                             [j \in 1..Len(result.schemas[i].tables) |->
                                 is_different(result.schemas[i].tables[j])]]]>>
    /\ pc' = "read"
    /\ UNCHANGED <<left_db, right_db, result, definition_in, normalized>>

MutationNext ==
    \/ ConnectLeftSmall
    \/ ConnectLeftError
    \/ ConnectRightSmall
    \/ ConnectRightError
    \/ Analyze
    \/ AppendColumn
    \/ RemoveColumn
    \/ ReplaceColumn
    \/ AppendView
    \/ RemoveView
    \/ ReadDifferences

SpecMutation == Init /\ [][MutationNext]_vars

(***************************************************************************)
(* The normalizer on its own: normalize_constraint_definition applied to   *)
(* a definition, then to its own output.  definition_in is the definition, *)
(* normalized the list of the results so far.                              *)
(***************************************************************************)
\* The pieces definitions are assembled from: the four casts the normalizer
\* knows, pieces of them, and alphanumeric, punctuation and whitespace text.
Fragments ==
    {<<"a">>, <<"0">>, <<" ">>, <<"\n">>, <<"(">>, <<")">>, <<":">>, <<"[", "]">>,
     CastText, CastCharacterVarying, <<":", ":", "t", "e">>, <<"x", "t">>}

\* The number of fragments of a definition.
MaxFragments == 3

RECURSIVE Assembled(_)
Assembled(n) ==
    IF n = 0 THEN {<<>>}
    ELSE LET shorter == Assembled(n - 1)
         IN  shorter \cup {s \o f : s \in shorter, f \in Fragments}

Definitions ==
    {None} \cup {Some(s) : s \in Assembled(MaxFragments)
                               \cup {CheckAge, CheckAgeIntegerCast, CheckAgeTextCast}}

NormInit ==
    /\ left_db = Database
    /\ right_db = Database
    /\ result = AnalysisResult
    /\ pc = "normalize"
    /\ console = <<>>
    /\ definition_in \in Definitions
    /\ normalized = <<>>

Normalize ==
    /\ pc = "normalize"
    /\ normalized' = <<normalize_constraint_definition(definition_in)>>
    /\ pc' = "renormalize"
    /\ UNCHANGED <<left_db, right_db, result, console, definition_in>>

\* The output is normalized again.
Renormalize ==
    /\ pc = "renormalize"
    /\ normalized' = Append(normalized, normalize_constraint_definition(normalized[1]))
    /\ pc' = "normalized"
    /\ UNCHANGED <<left_db, right_db, result, console, definition_in>>

NormNext == Normalize \/ Renormalize

SpecNorm == NormInit /\ [][NormNext]_vars

(***************************************************************************)
(* Walking the analysis tree of the state                                  *)
(***************************************************************************)
Analyzed == pc = "report"

Every(rows, P(_)) == \A i \in 1..Len(rows) : P(rows[i])

Exists(rows, P(_)) == \E i \in 1..Len(rows) : P(rows[i])

\* P holds of every leaf row under a table / directly under a schema.
AllTableLeaves(t, P(_)) ==
    Every(t.columns, P) /\ Every(t.triggers, P) /\ Every(t.indexes, P) /\ Every(t.constraints, P)

AnyTableLeaf(t, P(_)) ==
    Exists(t.columns, P) \/ Exists(t.triggers, P) \/ Exists(t.indexes, P) \/ Exists(t.constraints, P)

AllSchemaLeaves(s, P(_)) ==
    Every(s.views, P) /\ Every(s.materialized_views, P) /\ Every(s.functions, P)

AnySchemaLeaf(s, P(_)) ==
    Exists(s.views, P) \/ Exists(s.materialized_views, P) \/ Exists(s.functions, P)

AllTables(P(_)) == Every(result.schemas, LAMBDA s : Every(s.tables, P))

AnyTable(P(_)) == Exists(result.schemas, LAMBDA s : Exists(s.tables, P))

AllLeaves(P(_)) ==
    Every(result.schemas,
        LAMBDA s : /\ AllSchemaLeaves(s, P)
                   /\ Every(s.tables, LAMBDA t : AllTableLeaves(t, P)))

AnyLeaf(P(_)) ==
    Exists(result.schemas,
        LAMBDA s : \/ AnySchemaLeaf(s, P)
                   \/ Exists(s.tables, LAMBDA t : AnyTableLeaf(t, P)))

\* P holds of every row of the tree, at every level.
AllRows(P(_)) == Every(result.schemas, P) /\ AllTables(P) /\ AllLeaves(P)

AnyRow(P(_)) == Exists(result.schemas, P) \/ AnyTable(P) \/ AnyLeaf(P)

OneSided(row) == row.in_left # row.in_right

TwoSided(row) == row.in_left /\ row.in_right

(***************************************************************************)
(* C1                                                                      *)
(***************************************************************************)
C1Row(row) ==
    /\ action(row) \in Action
    /\ (row.in_left /\ ~row.in_right) =>
           action(row) = ADD /\ get_modifications(row) = <<>>
    /\ (row.in_right /\ ~row.in_left) =>
           action(row) = REMOVE /\ get_modifications(row) = <<>>
    /\ TwoSided(row) =>
           /\ action(row) = MODIFY <=> get_modifications(row) # <<>>
           /\ action(row) = NONE <=> get_modifications(row) = <<>>

\* C1: every row of the tree, of every kind, has one of the four actions: ADD
\* when it is only in the left snapshot and REMOVE when it is only in the
\* right one, in both cases with no modifications; when it is in both, MODIFY
\* if get_modifications() is non-empty and NONE otherwise.
C1_ActionFromPresenceAndModifications == Analyzed => AllRows(C1Row)

\* A tree with an added schema, a removed leaf, a modified leaf and an
\* unchanged table.
C1_Witness ==
    /\ Analyzed
    /\ Exists(result.schemas, LAMBDA s : action(s) = ADD)
    /\ AnyLeaf(LAMBDA row : action(row) = REMOVE /\ Truthy(row.right_object))
    /\ AnyLeaf(LAMBDA row : action(row) = MODIFY)
    /\ AnyTable(LAMBDA t : action(t) = NONE)

(***************************************************************************)
(* C2                                                                      *)
(***************************************************************************)
\* The difference state the claim defines, bottom up.
LeafDiffers(row) == OneSided(row) \/ get_modifications(row) # <<>>

TableDiffers(t) == OneSided(t) \/ AnyTableLeaf(t, LeafDiffers)

SchemaDiffers(s) ==
    \/ OneSided(s)
    \/ Exists(s.tables, TableDiffers)
    \/ AnySchemaLeaf(s, LeafDiffers)

\* The objects of kind `kind` that db holds in schema `name`, by key.
InSchema(db, kind, name) ==
    {e \in {db[kind][i] : i \in 1..Len(db[kind])} :
        StartsWith(e.k, name \o Dot)}

\* The column keys on which the two snapshots disagree within schema `name`.
ChangedColumns(name) ==
    {key \in keys(left_db.columns) \cup keys(right_db.columns) :
        /\ StartsWith(key, name \o Dot)
        /\ DictGet(left_db.columns, key) # DictGet(right_db.columns, key)}

\* Within schema `name` the snapshots differ in nothing but the data type of
\* the column `key`.
OnlyColumnTypeChanged(name, key) ==
    /\ ChangedColumns(name) = {key}
    /\ \A kind \in {"tables", "indexes", "constraints", "triggers", "views",
                    "materialized_views", "functions"} :
           InSchema(left_db, kind, name) = InSchema(right_db, kind, name)
    /\ Truthy(DictGet(left_db.columns, key))
    /\ Truthy(DictGet(right_db.columns, key))
    /\ LET l == Val(DictGet(left_db.columns, key))
           r == Val(DictGet(right_db.columns, key))
       IN  /\ l.data_type # r.data_type
           /\ [l EXCEPT !.data_type = r.data_type] = r

\* The key of the column a column row stands for.
ColumnRowKey(row) == row.schema_name \o Dot \o row.table_name \o Dot \o row.name

C2Scenario(s) ==
    \A key \in keys(left_db.columns) :
        (TwoSided(s) /\ OnlyColumnTypeChanged(s.name, key)) =>
            /\ is_different(s)
            /\ Every(s.tables,
                   LAMBDA t :
                       /\ is_different(t)
                              <=> Exists(t.columns, LAMBDA c : ColumnRowKey(c) = key)
                       /\ Every(t.columns,
                              LAMBDA c : is_different(c) <=> ColumnRowKey(c) = key))

\* C2: a schema or table row is different exactly when its own presence flags
\* disagree or some row below it, at any depth, is different; a leaf row is
\* different exactly when its presence flags disagree or its field comparison
\* is non-empty.  So when a schema in both snapshots differs in nothing but
\* one column's type, the schema row and that column's table row are
\* different and every other table and column row of the schema is not.
C2_DifferencePropagation ==
    Analyzed =>
        /\ Every(result.schemas, LAMBDA s : is_different(s) <=> SchemaDiffers(s))
        /\ AllTables(LAMBDA t : is_different(t) <=> TableDiffers(t))
        /\ AllLeaves(LAMBDA row : is_different(row) <=> LeafDiffers(row))
        /\ Every(result.schemas, C2Scenario)

\* A schema in both snapshots whose only change is the type of one column of
\* one table, next to an unchanged sibling column and an unchanged sibling
\* table.
C2_Witness ==
    /\ Analyzed
    /\ Exists(result.schemas,
           LAMBDA s :
               /\ TwoSided(s)
               /\ \E key \in keys(left_db.columns) : OnlyColumnTypeChanged(s.name, key)
               /\ Exists(s.tables, LAMBDA t : TwoSided(t) /\ ~is_different(t))
               /\ Exists(s.tables,
                      LAMBDA t : /\ is_different(t)
                                 /\ Exists(t.columns, LAMBDA c : ~is_different(c))
                                 /\ Exists(t.columns, is_different)))

(***************************************************************************)
(* C3                                                                      *)
(***************************************************************************)
\* C3: a schema row present on one side only has no table, view, materialized
\* view or function rows, and a table row present on one side only has no
\* column, index, constraint or trigger rows.
C3_NoChildExpansion ==
    Analyzed =>
        /\ Every(result.schemas,
               LAMBDA s : OneSided(s) =>
                   /\ s.tables = <<>>
                   /\ s.views = <<>>
                   /\ s.materialized_views = <<>>
                   /\ s.functions = <<>>)
        /\ AllTables(LAMBDA t : OneSided(t) =>
               /\ t.columns = <<>>
               /\ t.indexes = <<>>
               /\ t.constraints = <<>>
               /\ t.triggers = <<>>)

\* The left snapshot holds a table with a column in a schema the right one
\* lacks, and a column of a table the right one lacks.
C3_Witness ==
    /\ Analyzed
    /\ Exists(result.schemas,
           LAMBDA s : /\ s.in_left /\ ~s.in_right
                      /\ \E key \in keys(left_db.tables) : StartsWith(key, s.name \o Dot)
                      /\ \E key \in keys(left_db.columns) : StartsWith(key, s.name \o Dot))
    /\ AnyTable(LAMBDA t :
           /\ t.in_left /\ ~t.in_right
           /\ \E key \in keys(left_db.columns) :
                  StartsWith(key, t.schema_name \o Dot \o t.name \o Dot))

(***************************************************************************)
(* C4                                                                      *)
(***************************************************************************)
\* The composite key a row stands for, rebuilt from the row's names.
RowKey(row) ==
    CASE row.cls = "SchemaAnalysis" -> row.name
      [] row.cls \in {"ColumnAnalysis", "TriggerAnalysis"} ->
             row.schema_name \o Dot \o row.table_name \o Dot \o row.name
      [] OTHER -> row.schema_name \o Dot \o row.name

\* The keys of the objects of db[kind] that satisfy owned.
OwnedKeys(db, kind, owned(_)) ==
    {db[kind][i].k : i \in {j \in 1..Len(db[kind]) : owned(db[kind][j].v)}}

\* rows has one row per key of L \cup R, flagged by membership in L and R.
Reconciles(rows, L, R) ==
    /\ Len(rows) = Cardinality(L \cup R)
    /\ {RowKey(rows[i]) : i \in 1..Len(rows)} = L \cup R
    /\ Every(rows, LAMBDA row : /\ row.in_left <=> RowKey(row) \in L
                                /\ row.in_right <=> RowKey(row) \in R)

C4Children(rows, kind, owned(_)) ==
    Reconciles(rows, OwnedKeys(left_db, kind, owned), OwnedKeys(right_db, kind, owned))

C4Table(t) ==
    TwoSided(t) =>
        /\ C4Children(t.columns, "columns",
               LAMBDA o : o.table_schema = t.schema_name /\ o.table_name = t.name)
        /\ C4Children(t.triggers, "triggers",
               LAMBDA o : /\ o.event_object_schema = t.schema_name
                          /\ o.event_object_table = t.name)
        /\ C4Children(t.indexes, "indexes",
               LAMBDA o : o.schema_name = t.schema_name /\ o.table_name = t.name)
        /\ C4Children(t.constraints, "constraints",
               LAMBDA o : o.table_schema = t.schema_name /\ o.table_name = t.name)

C4Schema(s) ==
    TwoSided(s) =>
        /\ C4Children(s.tables, "tables", LAMBDA o : o.table_schema = s.name)
        /\ C4Children(s.views, "views", LAMBDA o : o.table_schema = s.name)
        /\ C4Children(s.materialized_views, "materialized_views",
               LAMBDA o : o.schema_name = s.name)
        /\ C4Children(s.functions, "functions", LAMBDA o : o.schema_name = s.name)

\* C4: the schema list, and every child list of a schema or table present on
\* both sides, has exactly one row per key of the union of the left and right
\* keys of that scope, and each row's in_left / in_right say whether its key
\* is among the left / right keys.
C4_KeySetReconciliation ==
    Analyzed =>
        /\ Reconciles(result.schemas, keys(left_db.schemas), keys(right_db.schemas))
        /\ Every(result.schemas, C4Schema)
        /\ AllTables(C4Table)

\* A table with a column only in the left snapshot and a column only in the
\* right one.
C4_Witness ==
    /\ Analyzed
    /\ AnyTable(LAMBDA t :
           /\ Exists(t.columns, LAMBDA c : c.in_left /\ ~c.in_right)
           /\ Exists(t.columns, LAMBDA c : c.in_right /\ ~c.in_left))

(***************************************************************************)
(* C5                                                                      *)
(***************************************************************************)
Ascending(rows) ==
    \A i \in 1..(Len(rows) - 1) : StrLess(RowKey(rows[i]), RowKey(rows[i + 1]))

Reverse(q) == [i \in 1..Len(q) |-> q[Len(q) + 1 - i]]

\* The snapshot with the entries of every collection inserted in the
\* opposite order.
Reinserted(db) ==
    [db EXCEPT
        !.schemas = Reverse(@),
        !.tables = Reverse(@),
        !.columns = Reverse(@),
        !.indexes = Reverse(@),
        !.constraints = Reverse(@),
        !.views = Reverse(@),
        !.triggers = Reverse(@),
        !.functions = Reverse(@),
        !.materialized_views = Reverse(@),
        !.sequences = Reverse(@)]

\* C5: the schema list and every child list are in strictly ascending order
\* of the rows' composite keys, and analysing the same snapshots with their
\* entries inserted in another order gives the same tree.
C5_CanonicalOrder ==
    Analyzed =>
        /\ Ascending(result.schemas)
        /\ Every(result.schemas,
                 LAMBDA s : /\ Ascending(s.tables)
                            /\ Ascending(s.views)
                            /\ Ascending(s.materialized_views)
                            /\ Ascending(s.functions))
        /\ AllTables(LAMBDA t : /\ Ascending(t.columns)
                                /\ Ascending(t.triggers)
                                /\ Ascending(t.indexes)
                                /\ Ascending(t.constraints))
        /\ analyze_databases(Reinserted(left_db), right_db).schemas = result.schemas
        /\ analyze_databases(left_db, Reinserted(right_db)).schemas = result.schemas
        /\ analyze_databases(Reinserted(left_db), Reinserted(right_db)).schemas
               = result.schemas

\* Two schemas, two tables and two columns in the tree, from snapshots in
\* which another insertion order is a different dict.
C5_Witness ==
    /\ Analyzed
    /\ Len(result.schemas) = 2
    /\ Reinserted(left_db) # left_db
    /\ Reinserted(right_db) # right_db
    /\ AnyTable(LAMBDA t : Len(t.columns) = 2)
    /\ Exists(result.schemas, LAMBDA s : Len(s.tables) = 2)

(***************************************************************************)
(* C6                                                                      *)
(***************************************************************************)
RECURSIVE Concat(_)
Concat(qs) == IF Len(qs) = 0 THEN <<>> ELSE qs[1] \o Concat(Tail(qs))

\* The rows below a table / below a schema, at every depth.
TableDescendants(t) == t.columns \o t.indexes \o t.constraints \o t.triggers

SchemaDescendants(s) ==
    Concat(Comprehension(s.tables, LAMBDA t : <<t>> \o TableDescendants(t)))
        \o s.views \o s.materialized_views \o s.functions

TreeRows == Concat(Comprehension(result.schemas, LAMBDA s : <<s>> \o SchemaDescendants(s)))

\* The rows among `rows` whose own presence flags disagree or whose own
\* field comparison is non-empty.
OwnDifferences(rows) ==
    Cardinality({i \in 1..Len(rows) :
        OneSided(rows[i]) \/ get_modifications(rows[i]) # <<>>})

\* C6: count_differences() is the number of rows of the tree, at all levels,
\* whose own presence flags disagree or whose own field comparison is
\* non-empty: a schema present on one side only counts 1 whatever it holds,
\* and a schema or table present on both sides counts nothing for itself.
C6_CountDifferences ==
    Analyzed =>
        /\ count_differences(result) = OwnDifferences(TreeRows)
        /\ Every(result.schemas,
                 LAMBDA s : CountSchema(s) =
                     IF OneSided(s) THEN 1 ELSE OwnDifferences(SchemaDescendants(s)))
        /\ AllTables(LAMBDA t : CountTable(t) =
               IF OneSided(t) THEN 1 ELSE OwnDifferences(TableDescendants(t)))

\* Left schemas {public, audit} against right schemas {public}: audit, which
\* holds a table and a column, counts once; public is different only through a
\* changed column.
C6_Witness ==
    /\ Analyzed
    /\ keys(left_db.schemas) = {Public, Audit}
    /\ keys(right_db.schemas) = {Public}
    /\ keys(left_db.columns) \cap {Column_key(ColumnRow(Audit, Log, <<"i", "d">>, ""))} # {}
    /\ Exists(result.schemas,
              LAMBDA s : TwoSided(s) /\ is_different(s) /\ CountSchema(s) = 1)
    /\ count_differences(result) = 2

(***************************************************************************)
(* C10                                                                     *)
(***************************************************************************)
\* The kinds of the summary in report order, with the collection each counts.
SummaryKinds ==
    <<<<"Schemas", "schemas">>, <<"Tables", "tables">>, <<"Columns", "columns">>,
      <<"Indexes", "indexes">>, <<"Constraints", "constraints">>,
      <<"Views", "views">>, <<"Triggers", "triggers">>, <<"Functions", "functions">>,
      <<"Materialized Views", "materialized_views">>, <<"Sequences", "sequences">>>>

\* C10: the summary has one row per kind, in the fixed order Schemas, Tables,
\* Columns, Indexes, Constraints, Views, Triggers, Functions, Materialized
\* Views, Sequences, and a row's counts are the numbers of objects of that
\* kind in the left and in the right snapshot, whether or not the tree has
\* rows for them.
C10_Summary ==
    Analyzed =>
        /\ Len(result.summary) = Len(SummaryKinds)
        /\ \A i \in 1..Len(SummaryKinds) :
               /\ result.summary[i].object_type = SummaryKinds[i][1]
               /\ result.summary[i].left_count =
                      Cardinality(keys(left_db[SummaryKinds[i][2]]))
               /\ result.summary[i].right_count =
                      Cardinality(keys(right_db[SummaryKinds[i][2]]))

\* The left snapshot holds a table and a column in a schema the right one
\* lacks: the tree has no row for them (it has no leaf row at all), the
\* summary counts them.
C10_Witness ==
    /\ Analyzed
    /\ Exists(result.schemas, LAMBDA s : s.in_left /\ ~s.in_right /\ s.tables = <<>>)
    /\ result.summary[2].left_count = 2
    /\ result.summary[2].right_count = 1
    /\ result.summary[3].left_count = 1
    /\ result.summary[3].right_count = 0
    /\ ~AnyLeaf(LAMBDA row : TRUE)

(***************************************************************************)
(* C7                                                                      *)
(***************************************************************************)
\* C7: normalizing a normalized definition changes nothing, and the
\* normalized form of None is None.
C7_NormalizeIdempotent ==
    /\ pc = "normalized" => normalized[2] = normalized[1]
    /\ (pc # "normalize" /\ IsNone(definition_in)) => IsNone(normalized[1])

\* A definition that the first normalization changed, by removing a cast and
\* by collapsing punctuation, has been normalized twice.
C7_Witness ==
    /\ pc = "normalized"
    /\ ~IsNone(definition_in)
    /\ StripCasts(Val(definition_in)) # Val(definition_in)
    /\ NonAlnumToSpace(StripCasts(Val(definition_in))) # StripCasts(Val(definition_in))
    /\ Len(Val(normalized[1])) > 0

(***************************************************************************)
(* C8                                                                      *)
(***************************************************************************)
CheckAgeNormalized == <<"C", "H", "E", "C", "K", " ", "a", "g", "e", " ", "0">>

CheckAgeIntegerNormalized ==
    <<"C", "H", "E", "C", "K", " ", "a", "g", "e", " ", "i", "n", "t", "e", "g", "e", "r", " ", "0">>

\* A constraint row present on both sides whose objects have the same type
\* and the definitions d1 and d2, one each.
ConstraintPair(row, d1, d2) ==
    /\ row.cls = "ConstraintAnalysis"
    /\ BothObjects(row)
    /\ Val(row.left_object).constraint_type = Val(row.right_object).constraint_type
    /\ {Val(row.left_object).constraint_definition,
        Val(row.right_object).constraint_definition} = {Some(d1), Some(d2)}

\* C8 as claimed: CHECK ((age >= 0)) and CHECK ((age)::integer >= 0) both
\* normalize to CHECK age 0, and a constraint with these two definitions and
\* equal types is classified NONE.
C8_IntegerCastStripped ==
    Analyzed =>
        AllLeaves(LAMBDA row :
            ConstraintPair(row, CheckAge, CheckAgeIntegerCast) =>
                /\ normalize_constraint_definition(Val(row.left_object).constraint_definition)
                       = Some(CheckAgeNormalized)
                /\ normalize_constraint_definition(Val(row.right_object).constraint_definition)
                       = Some(CheckAgeNormalized)
                /\ action(row) = NONE)

\* C8 amended: only the ::character varying and ::text casts are stripped.
\* CHECK ((age >= 0)) normalizes to CHECK age 0 and CHECK ((age)::integer >= 0)
\* to CHECK age integer 0, so a constraint with these two definitions and
\* equal types is classified MODIFY, with the single modification "definition
\* changed"; CHECK ((age)::text >= 0) normalizes to CHECK age 0, so with it in
\* place of the ::integer definition the classification is NONE.
C8_OnlyKnownCastsStripped ==
    Analyzed =>
        AllLeaves(LAMBDA row :
            /\ ConstraintPair(row, CheckAge, CheckAgeIntegerCast) =>
                   /\ {normalize_constraint_definition(
                           Val(row.left_object).constraint_definition),
                       normalize_constraint_definition(
                           Val(row.right_object).constraint_definition)}
                          = {Some(CheckAgeNormalized), Some(CheckAgeIntegerNormalized)}
                   /\ get_modifications(row) = <<"definition changed">>
                   /\ action(row) = MODIFY
            /\ ConstraintPair(row, CheckAge, CheckAgeTextCast) =>
                   /\ normalize_constraint_definition(
                          Val(row.left_object).constraint_definition)
                          = Some(CheckAgeNormalized)
                   /\ normalize_constraint_definition(
                          Val(row.right_object).constraint_definition)
                          = Some(CheckAgeNormalized)
                   /\ get_modifications(row) = <<>>
                   /\ action(row) = NONE)

\* The tree has a constraint whose left definition is CHECK ((age >= 0)) and
\* whose right definition is CHECK ((age)::integer >= 0).
C8_Witness ==
    /\ Analyzed
    /\ AnyLeaf(LAMBDA row :
           /\ ConstraintPair(row, CheckAge, CheckAgeIntegerCast)
           /\ Val(row.left_object).constraint_definition = Some(CheckAge))

(***************************************************************************)
(* C9                                                                      *)
(***************************************************************************)
\* A trigger row present on both sides whose objects agree on event, timing
\* and orientation.
TriggerPair(row) ==
    /\ row.cls = "TriggerAnalysis"
    /\ TwoSided(row)
    /\ BothObjects(row)
    /\ Val(row.left_object).event_manipulation = Val(row.right_object).event_manipulation
    /\ Val(row.left_object).action_timing = Val(row.right_object).action_timing
    /\ Val(row.left_object).action_orientation = Val(row.right_object).action_orientation

\* C9: for a trigger present on both sides with equal event, timing and
\* orientation, get_modifications() is exactly ["statement changed"] and the
\* action MODIFY when the action statements differ, and get_modifications()
\* is empty and the action NONE when they are equal.
C9_TriggerStatement ==
    Analyzed =>
        AllLeaves(LAMBDA row :
            TriggerPair(row) =>
                IF Val(row.left_object).action_statement
                       # Val(row.right_object).action_statement
                THEN get_modifications(row) = <<"statement changed">>
                         /\ action(row) = MODIFY
                ELSE get_modifications(row) = <<>> /\ action(row) = NONE)

\* The tree has a trigger that differs in its action statement only.
C9_Witness ==
    /\ Analyzed
    /\ AnyLeaf(LAMBDA row :
           /\ TriggerPair(row)
           /\ Val(row.left_object).action_statement
                  # Val(row.right_object).action_statement)

(***************************************************************************)
(* C11                                                                     *)
(***************************************************************************)
\* The leading integer component of the version number of a version string.
LeadingInteger(version_string) ==
    LET number == _extract_major_version(version_string)
    IN  SubSeq(number, 1, DigitRun(number, 1))

\* C11: version_warning is None, and main() prints no warning, when the
\* leading integers of the version numbers of the two snapshots are equal,
\* and it is a warning string, which main() prints, when they differ.
C11_WarningIffLeadingIntegersDiffer ==
    pc = "display" =>
        IF LeadingInteger(left_db.postgres_version)
               = LeadingInteger(right_db.postgres_version)
        THEN IsNone(version_warning(left_db, right_db)) /\ console = <<>>
        ELSE /\ ~IsNone(version_warning(left_db, right_db))
             /\ console = <<Val(version_warning(left_db, right_db))>>

(***************************************************************************)
(* C12                                                                     *)
(***************************************************************************)
\* The snapshot db as gathered from a server whose SELECT version() returns
\* version_row.
WithVersion(db, version_row) ==
    [db EXCEPT !.postgres_version = _fetch_postgres_version(version_row)]

\* C12: the analysis of two snapshots that differ from the analysed ones in
\* their version strings only has the same schemas tree (so the same action
\* and is_different on every node), the same has_differences() and the same
\* count_differences().
C12_VersionNeverAffectsClassification ==
    Analyzed =>
        \A left_row, right_row \in VersionRows :
            LET other == analyze_databases(WithVersion(left_db, left_row),
                                           WithVersion(right_db, right_row))
            IN  /\ other.schemas = result.schemas
                /\ has_differences(other) = has_differences(result)
                /\ count_differences(other) = count_differences(result)

\* Snapshots of different major versions have been analysed and the tree has
\* a schema, a table and a column that differ.
C12_Witness ==
    /\ Analyzed
    /\ versions_differ(left_db, right_db)
    /\ has_differences(result)
    /\ AnyLeaf(LAMBDA row : row.cls = "ColumnAnalysis" /\ action(row) = MODIFY)

(***************************************************************************)
(* C13                                                                     *)
(***************************************************************************)
\* C13: whatever was appended to, removed from or replaced in the child
\* lists after the tree was built, a read of is_different of a table or a
\* schema, of has_differences() and of count_differences() returns the value
\* that the children the tree holds at the read define.
C13_NoStaleDifferenceState ==
    pc = "read" =>
        LET read == console[1]
        IN  /\ \A i \in 1..Len(result.schemas) :
                   /\ read.schemas[i] = SchemaDiffers(result.schemas[i])
                   /\ \A j \in 1..Len(result.schemas[i].tables) :
                          read.tables[i][j] = TableDiffers(result.schemas[i].tables[j])
            /\ read.has_differences = Exists(result.schemas, SchemaDiffers)
            /\ read.count_differences = OwnDifferences(TreeRows)

\* The tree as built had no difference; a differing column was appended to a
\* table and the read reports the table, the schema and the result different.
C13_Witness ==
    /\ pc = "read"
    /\ ~has_differences(analyze_databases(left_db, right_db))
    /\ console[1].has_differences
    /\ console[1].count_differences = 1
    /\ \E i \in 1..Len(result.schemas) :
           /\ console[1].schemas[i]
           /\ \E j \in 1..Len(result.schemas[i].tables) :
                  /\ console[1].tables[i][j]
                  /\ TwoSided(result.schemas[i].tables[j])
                  /\ Len(result.schemas[i].tables[j].columns) = MaxChildren

(***************************************************************************)
(* main() through a read of every derived value of the tree                *)
(***************************************************************************)
\* What a renderer reads from a row: action, action_description,
\* is_different, get_modifications() and, on the rows that have it,
\* modification_detail.
ReadRow(row) ==
    IF row.cls \in {"SchemaAnalysis", "TableAnalysis"}
    THEN [action |-> action(row),
          action_description |-> action_description(row),
          is_different |-> is_different(row),
          get_modifications |-> get_modifications(row)]
    ELSE [action |-> action(row),
          action_description |-> action_description(row),
          is_different |-> is_different(row),
          get_modifications |-> get_modifications(row),
          modification_detail |-> modification_detail(row)]

\* The rows of the tree are read, then has_differences() and
\* count_differences(); console holds what was read.
ReadRows ==
    /\ pc = "report"
    /\ console' = <<[rows |-> [i \in 1..Len(TreeRows) |-> ReadRow(TreeRows[i])],
                    has_differences |-> has_differences(result),
                    count_differences |-> count_differences(result)]>>
    /\ pc' = "read"
    /\ UNCHANGED <<left_db, right_db, result, definition_in, normalized>>

ReadNext ==
    \/ ConnectLeft
    \/ ConnectLeftError
    \/ ConnectRight
    \/ ConnectRightError
    \/ Analyze
    \/ ReadRows

SpecRead == Init /\ [][ReadNext]_vars

(***************************************************************************)
(* C14                                                                     *)
(***************************************************************************)
\* The collection of a snapshot that holds the objects of a row's class.
KindOf(row) ==
    CASE row.cls = "TableAnalysis" -> "tables"
      [] row.cls = "ColumnAnalysis" -> "columns"
      [] row.cls = "TriggerAnalysis" -> "triggers"
      [] row.cls = "IndexAnalysis" -> "indexes"
      [] row.cls = "ConstraintAnalysis" -> "constraints"
      [] row.cls = "ViewAnalysis" -> "views"
      [] row.cls = "MaterializedViewAnalysis" -> "materialized_views"
      [] row.cls = "FunctionAnalysis" -> "functions"

\* The row's objects are the ones the snapshots hold under the row's key.
OwnObjects(row) ==
    row.cls # "SchemaAnalysis" =>
        /\ row.left_object =
               IF row.in_left THEN DictGet(left_db[KindOf(row)], RowKey(row)) ELSE None
        /\ row.right_object =
               IF row.in_right THEN DictGet(right_db[KindOf(row)], RowKey(row)) ELSE None

\* A step of the analysis or of a read leaves both snapshots as they are.
SnapshotsKept ==
    pc \in {"analyze", "report"} => left_db' = left_db /\ right_db' = right_db

\* C14: analyze_databases and the reads of action, is_different,
\* get_modifications(), modification_detail, has_differences() and
\* count_differences() leave both snapshots as they were gathered, and the
\* left_object / right_object of every row is the object its snapshot holds.
C14_EngineOnlyReads ==
    /\ [][SnapshotsKept]_vars
    /\ [](pc \in {"report", "read"} => Every(TreeRows, OwnObjects))

\* The tree, with a constraint whose definition changed, has been read.
C14_Witness ==
    /\ pc = "read"
    /\ console[1].has_differences
    /\ \E i \in 1..Len(TreeRows) :
           /\ TreeRows[i].cls = "ConstraintAnalysis"
           /\ console[1].rows[i].action = MODIFY
           /\ console[1].rows[i].modification_detail # ""
           /\ OwnObjects(TreeRows[i])
           /\ left_db.constraints # EmptyDict

(***************************************************************************)
(* main() on servers whose table users has constraints of several names,   *)
(* types and definitions, through the read of the tree                     *)
(***************************************************************************)
\* Printings of the constraint age >= 0 that differ in whitespace and
\* punctuation and in a ::character varying[] cast, and another constraint.
CheckAgeSpaced ==
    <<"C", "H", "E", "C", "K", " ", "(", " ", "a", "g", "e", " ", " ", ">",
      "=", "\n", " ", "0", " ", ")">>

CheckAgeVaryingArrayCast ==
    <<"C", "H", "E", "C", "K", " ", "(", "(", "a", "g", "e", ")", ":", ":",
      "c", "h", "a", "r", "a", "c", "t", "e", "r", " ", "v", "a", "r", "y",
      "i", "n", "g", "[", "]", " ", ">", "=", " ", "0", ")">>

CheckAgeOne ==
    <<"C", "H", "E", "C", "K", " ", "(", "(", "a", "g", "e", " ", ">", "=",
      " ", "1", ")", ")">>

ConstraintDefinitions ==
    {None, Some(CheckAge), Some(CheckAgeTextCast), Some(CheckAgeIntegerCast),
     Some(CheckAgeSpaced), Some(CheckAgeVaryingArrayCast), Some(CheckAgeOne)}

\* Constraint names: the name PostgreSQL generates for a not-null constraint,
\* and names close to it.
Name_12_34_5_not_null ==
    <<"1", "2", "_", "3", "4", "_", "5", "_", "n", "o", "t", "_", "n", "u",
      "l", "l">>

NameDashes ==
    <<"1", "2", "-", "3", "4", "-", "5", "_", "n", "o", "t", "_", "n", "u",
      "l", "l">>

NameTwoIntegers ==
    <<"1", "2", "_", "3", "4", "_", "n", "o", "t", "_", "n", "u", "l", "l">>

NameTrailingNewline ==
    <<"1", "2", "_", "3", "4", "_", "5", "_", "n", "o", "t", "_", "n", "u",
      "l", "l", "\n">>

ConstraintNamed(name, type, definition) ==
    [ConstraintRow(CheckAge) EXCEPT
        !.constraint_name = name,
        !.constraint_type = type,
        !.constraint_definition = definition]

\* The constraint age_check in its variants, and one NOT NULL constraint per
\* name.
AgeCheckRows ==
    {ConstraintNamed(ConstraintRow(CheckAge).constraint_name, type, definition) :
        type \in {"CHECK", "UNIQUE"}, definition \in ConstraintDefinitions}

NotNullRows ==
    {ConstraintNamed(name, "CHECK", None) :
        name \in {Name_12_34_5_not_null, NameDashes, NameTwoIntegers,
                  NameTrailingNewline}}

\* A server with the table public.users and at most one constraint of each
\* of the two groups.
ConstraintContents ==
    {[skeleton |-> [schemas |-> {SchemaRow(Public)},
                    tables |-> {TableRow(Public, Users)}],
      leaves |-> {[kind |-> "constraints",
                   parent |-> Table_key(TableRow(Public, Users)),
                   obj |-> obj] : obj \in objs}] :
        objs \in {a \cup b : a \in {{}} \cup {{x} : x \in AgeCheckRows},
                            b \in {{}} \cup {{x} : x \in NotNullRows}}}

ConnectLeftConstraints ==
    /\ pc = "connect_left"
    /\ \E c \in ConstraintContents : left_db' = fetch_all(Catalog(c))
    /\ pc' = "connect_right"
    /\ UNCHANGED <<right_db, result, console, definition_in, normalized>>

ConnectRightConstraints ==
    /\ pc = "connect_right"
    /\ \E c \in ConstraintContents : right_db' = fetch_all(Catalog(c))
    /\ pc' = "analyze"
    /\ UNCHANGED <<left_db, result, console, definition_in, normalized>>

ConstraintsNext ==
    \/ ConnectLeftConstraints
    \/ ConnectLeftError
    \/ ConnectRightConstraints
    \/ ConnectRightError
    \/ Analyze
    \/ ReadRows

SpecConstraints == Init /\ [][ConstraintsNext]_vars

(***************************************************************************)
(* C15                                                                     *)
(***************************************************************************)
\* name is three non-empty runs of digits separated by characters of seps,
\* followed by one of the suffixes.
ThreeIntegersThen(name, seps, suffixes) ==
    \E i, j, k \in 1..Len(name) :
        /\ 1 < i /\ i + 1 < j /\ j + 1 < k
        /\ name[i] \in seps /\ name[j] \in seps
        /\ \A n \in (1..(i - 1)) \cup ((i + 1)..(j - 1)) \cup ((j + 1)..(k - 1)) :
               name[n] \in Digits
        /\ SubSeq(name, k, Len(name)) \in suffixes

_not_null == <<"_">> \o NotNullSuffix

\* The objects a snapshot holds as constraints.
ConstraintsOf(db) == {db.constraints[i].v : i \in 1..Len(db.constraints)}

\* The snapshot db holds no constraint whose name satisfies auto, holds every
\* other constraint of any server it can have been gathered from, and the
\* analysis shows and counts the constraints held.
Filtered(db, auto(_)) ==
    /\ \A o \in ConstraintsOf(db) : ~auto(o.constraint_name)
    /\ \A c \in ConstraintContents :
           fetch_all(Catalog(c)) = db =>
               ConstraintsOf(db) =
                   {o \in Objects(c, "constraints") : ~auto(o.constraint_name)}

ConstraintNodes ==
    {TreeRows[i] : i \in {j \in 1..Len(TreeRows) : TreeRows[j].cls = "ConstraintAnalysis"}}

\* C15 as claimed: a constraint named by three integers separated by dashes
\* or underscores and then _not_null is in neither snapshot, in no constraint
\* node and in no summary count; every other constraint is kept.
C15_DashOrUnderscoreNamesFiltered ==
    LET auto(name) == ThreeIntegersThen(name, {"-", "_"}, {_not_null})
    IN  /\ pc # "connect_left" => Filtered(left_db, auto)
        /\ pc \notin {"connect_left", "connect_right"} => Filtered(right_db, auto)

\* C15 amended: the names filtered are those of three integers separated by
\* underscores and then _not_null, with or without one newline at the end; a
\* name with dashes is kept.  No filtered constraint is in a snapshot, in a
\* constraint node or in the Constraints count of the summary, and every
\* other constraint of the server is in the snapshot.
C15_UnderscoreNamesFiltered ==
    LET auto(name) ==
            ThreeIntegersThen(name, {"_"}, {_not_null, _not_null \o <<"\n">>})
    IN  /\ pc # "connect_left" => Filtered(left_db, auto)
        /\ pc \notin {"connect_left", "connect_right"} => Filtered(right_db, auto)
        /\ pc \in {"report", "read"} =>
               /\ \A row \in ConstraintNodes :
                      /\ row.in_left => ~auto(Val(row.left_object).constraint_name)
                      /\ row.in_right => ~auto(Val(row.right_object).constraint_name)
               /\ result.summary[5].object_type = "Constraints"
               /\ result.summary[5].left_count = Cardinality(ConstraintsOf(left_db))
               /\ result.summary[5].right_count = Cardinality(ConstraintsOf(right_db))

\* The left server has 12_34_5_not_null and age_check, the right one
\* 12-34-5_not_null: the tree shows age_check and 12-34-5_not_null.
C15_Witness ==
    /\ pc = "report"
    /\ \E c \in ConstraintContents :
           /\ fetch_all(Catalog(c)) = left_db
           /\ \E o \in Objects(c, "constraints") :
                  o.constraint_name = Name_12_34_5_not_null
    /\ Cardinality(ConstraintsOf(left_db)) = 1
    /\ {o.constraint_name : o \in ConstraintsOf(right_db)} = {NameDashes}
    /\ Cardinality(ConstraintNodes) = 2

(***************************************************************************)
(* main() with --apply-sql: the row counts before and after the SQL         *)
(***************************************************************************)
\* fetch_row_counts: one COUNT(*) per row of the table query, keyed by
\* schema.table.
fetch_row_counts(rows) ==
    FetchLoop([i \in 1..Len(rows) |->
                  [k |-> rows[i].table_schema \o Dot \o rows[i].table_name,
                   v |-> IF Truthy(rows[i].row_count) THEN Val(rows[i].row_count) ELSE 0]])

\* Database.fetch_all(apply_sql) with a non-empty apply_sql: the row counts
\* are gathered from the catalog before the SQL, everything else from the
\* catalog after it.
fetch_all_apply_sql(before, after) ==
    [fetch_all(after) EXCEPT !.row_counts_before_sql = fetch_row_counts(before.tables)]

\* {key: tbl.row_count or 0 for key, tbl in db.tables.items()}
after_counts_of(db) ==
    [i \in 1..Len(db.tables) |->
        [k |-> db.tables[i].k,
         v |-> IF TruthyInt(db.tables[i].v.row_count)
               THEN Val(db.tables[i].v.row_count) ELSE 0]]

\* dict.get(key, 0)
GetOrZero(d, key) == IF key \in keys(d) THEN Val(DictGet(d, key)) ELSE 0

\* f"+{diff}" if diff > 0 else str(diff)
SignedChange(diff) == IF diff > 0 THEN "+" \o ToString(diff) ELSE ToString(diff)

\* The table renderer's loop over all_tables with the removed branch
\* leaving the difference counter alone.
RECURSIVE RowCountLoopRemovedUncounted(_, _, _)
RowCountLoopRemovedUncounted(all_tables, before_counts, after_counts) ==
    IF Len(all_tables) = 0 THEN [rows |-> <<>>, differences |-> 0]
    ELSE LET n == Len(all_tables)
             done == RowCountLoopRemovedUncounted(SubSeq(all_tables, 1, n - 1),
                                                  before_counts, after_counts)
             table_key == all_tables[n]
             in_before == table_key \in keys(before_counts)
             in_after == table_key \in keys(after_counts)
             before_count == GetOrZero(before_counts, table_key)
             after_count == GetOrZero(after_counts, table_key)
         IN  IF in_before /\ in_after
             THEN IF before_count # after_count
                  THEN [rows |-> Append(done.rows,
                            <<table_key, ToString(before_count), ToString(after_count),
                              SignedChange(after_count - before_count),
                              "[cyan]modified[/cyan]">>),
                        differences |-> done.differences + 1]
                  ELSE [rows |-> Append(done.rows,
                            <<table_key, ToString(before_count), ToString(after_count),
                              "", "[green]match[/green]">>),
                        differences |-> done.differences]
             ELSE IF in_before /\ ~in_after
             THEN [rows |-> Append(done.rows,
                       <<table_key, ToString(before_count), "-",
                         "-" \o ToString(before_count), "[red]removed[/red]">>),
                   differences |-> done.differences]
             ELSE [rows |-> Append(done.rows,
                       <<table_key, "-", ToString(after_count),
                         "+" \o ToString(after_count), "[yellow]added[/yellow]">>),
                   differences |-> done.differences + 1]

\* print_row_counts, the loop over all_tables: the rows added to the table
\* and the difference counter.
RECURSIVE RowCountLoop(_, _, _)
RowCountLoop(all_tables, before_counts, after_counts) ==
    IF Len(all_tables) = 0 THEN [rows |-> <<>>, differences |-> 0]
    ELSE LET n == Len(all_tables)
             done == RowCountLoop(SubSeq(all_tables, 1, n - 1),
                                  before_counts, after_counts)
             table_key == all_tables[n]
             in_before == table_key \in keys(before_counts)
             in_after == table_key \in keys(after_counts)
             before_count == GetOrZero(before_counts, table_key)
             after_count == GetOrZero(after_counts, table_key)
         IN  IF in_before /\ in_after
             THEN IF before_count # after_count
                  THEN [rows |-> Append(done.rows,
                            <<table_key, ToString(before_count), ToString(after_count),
                              SignedChange(after_count - before_count),
                              "[cyan]modified[/cyan]">>),
                        differences |-> done.differences + 1]
                  ELSE [rows |-> Append(done.rows,
                            <<table_key, ToString(before_count), ToString(after_count),
                              "", "[green]match[/green]">>),
                        differences |-> done.differences]
             ELSE IF in_before /\ ~in_after
             THEN [rows |-> Append(done.rows,
                       <<table_key, ToString(before_count), "-",
                         "-" \o ToString(before_count), "[red]removed[/red]">>),
                   differences |-> done.differences + 1]
             ELSE [rows |-> Append(done.rows,
                       <<table_key, "-", ToString(after_count),
                         "+" \o ToString(after_count), "[yellow]added[/yellow]">>),
                   differences |-> done.differences + 1]

\* print_row_counts(db): the rows of the table printed and the number
\* returned.
print_row_counts(db) ==
    LET before_counts == db.row_counts_before_sql
        after_counts == after_counts_of(db)
        all_tables == sorted(keys(before_counts) \cup keys(after_counts))
    IN  RowCountLoop(all_tables, before_counts, after_counts)

\* generate_xml_report, the row_counts section: the row_count elements in
\* document order, each with its sub-elements.
RECURSIVE row_counts_elem(_, _, _)
row_counts_elem(all_tables, row_counts_before, row_counts_after) ==
    IF Len(all_tables) = 0 THEN <<>>
    ELSE LET n == Len(all_tables)
             done == row_counts_elem(SubSeq(all_tables, 1, n - 1),
                                     row_counts_before, row_counts_after)
             table_key == all_tables[n]
             in_before == table_key \in keys(row_counts_before)
             in_after == table_key \in keys(row_counts_after)
             before_count == GetOrZero(row_counts_before, table_key)
             after_count == GetOrZero(row_counts_after, table_key)
         IN  IF in_before /\ in_after
             THEN IF before_count # after_count
                  THEN Append(done,
                           [name |-> table_key,
                            action |-> "modified",
                            before_count |-> ToString(before_count),
                            after_count |-> ToString(after_count),
                            change |-> SignedChange(after_count - before_count)])
                  ELSE done
             ELSE IF in_before /\ ~in_after
             THEN Append(done,
                      [name |-> table_key,
                       action |-> "removed",
                       rows_removed |-> ToString(before_count)])
             ELSE Append(done,
                      [name |-> table_key,
                       action |-> "added",
                       rows_added |-> ToString(after_count)])

\* generate_xml_report(result, row_counts_before, row_counts_after) with both
\* maps given: the row_counts section and number_of_differences.
generate_xml_report(res, row_counts_before, row_counts_after) ==
    [row_counts |->
         row_counts_elem(sorted(keys(row_counts_before) \cup keys(row_counts_after)),
                         row_counts_before, row_counts_after),
     number_of_differences |-> ToString(count_differences(res))]

\* The tables of public before and after the SQL: users and orders, each
\* absent or holding up to MaxRows rows.
MaxRows == 2

CountedTable(name, n) == [TableRow(Public, name) EXCEPT !.row_count = Some(n)]

RowCountContents ==
    {[skeleton |-> [schemas |-> {SchemaRow(Public)}, tables |-> u \cup o],
      leaves |-> {}] :
        u \in {{}} \cup {{CountedTable(Users, n)} : n \in 0..MaxRows},
        o \in {{}} \cup {{CountedTable(Orders, n)} : n \in 0..MaxRows}}

ConnectLeftRowCounts ==
    /\ pc = "connect_left"
    /\ \E c \in {x \in RowCountContents : \A t \in x.skeleton.tables : Val(t.row_count) = 0} :
           left_db' = fetch_all(Catalog(c))
    /\ pc' = "connect_right"
    /\ UNCHANGED <<right_db, result, console, definition_in, normalized>>

\* The right server is read with the SQL of --apply-sql applied.
ConnectRightApplySql ==
    /\ pc = "connect_right"
    /\ \E before \in RowCountContents, after \in RowCountContents :
           right_db' = fetch_all_apply_sql(Catalog(before), Catalog(after))
    /\ pc' = "analyze"
    /\ UNCHANGED <<left_db, result, console, definition_in, normalized>>

\* --xml: the report is printed as XML; the row counts do not reach the exit
\* code.
DisplayXml ==
    /\ pc = "report"
    /\ console' = <<[xml |-> generate_xml_report(result, right_db.row_counts_before_sql,
                                                 after_counts_of(right_db)),
                     exit |-> IF has_differences(result) THEN 2 ELSE 0]>>
    /\ pc' = "done"
    /\ UNCHANGED <<left_db, right_db, result, definition_in, normalized>>

\* Without --xml: the comparison table, then the row count table.
DisplayTables ==
    /\ pc = "report"
    /\ LET row_counts == print_row_counts(right_db)
       IN  console' = <<[comparison |-> [i \in 1..Len(TreeRows) |-> ReadRow(TreeRows[i])],
                         row_counts |-> row_counts.rows,
                         differences |-> row_counts.differences,
                         exit |-> IF has_differences(result) \/ row_counts.differences > 0
                                  THEN 2 ELSE 0]>>
    /\ pc' = "done"
    /\ UNCHANGED <<left_db, right_db, result, definition_in, normalized>>

RowCountsNext ==
    \/ ConnectLeftRowCounts
    \/ ConnectLeftError
    \/ ConnectRightApplySql
    \/ ConnectRightError
    \/ Analyze
    \/ DisplayXml
    \/ DisplayTables

SpecRowCounts == Init /\ [][RowCountsNext]_vars

\* The class of a table key, from presence and equality alone.
RowCountClass(before, after, key) ==
    IF key \in DOMAIN before /\ key \in DOMAIN after
    THEN IF before[key] = after[key] THEN "match" ELSE "modified"
    ELSE IF key \in DOMAIN after THEN "added" ELSE "removed"

\* The status cell of the row count table without its colour markup.
StatusWord(status) ==
    CASE status = "[green]match[/green]" -> "match"
      [] status = "[cyan]modified[/cyan]" -> "modified"
      [] status = "[yellow]added[/yellow]" -> "added"
      [] status = "[red]removed[/red]" -> "removed"

\* The two maps the right snapshot carries, as functions from table key to
\* count.
BeforeMap ==
    [key \in keys(right_db.row_counts_before_sql) |->
        Val(DictGet(right_db.row_counts_before_sql, key))]

AfterMap ==
    [key \in keys(right_db.tables) |-> Val(Val(DictGet(right_db.tables, key)).row_count)]

\* The class the XML section gives a key: the action of its element, match
\* when it has none.
XmlClass(elems, key) ==
    IF \E i \in 1..Len(elems) : elems[i].name = key
    THEN elems[CHOOSE i \in 1..Len(elems) : elems[i].name = key].action
    ELSE "match"

\* C16: once both snapshots are gathered with the SQL applied, the row count
\* table has exactly one row for every key of the union of the before and
\* after maps, whose status is match, modified, added or removed by presence
\* and equality of the counts alone; the number it reports is the number of
\* keys not classified match; the XML section has exactly one element for
\* every key not classified match, with that class as its action; and what
\* either renderer printed is what was computed.
C16_RowCountClassification ==
    pc \in {"analyze", "report", "done"} =>
        LET union == DOMAIN BeforeMap \cup DOMAIN AfterMap
            printed == print_row_counts(right_db)
            elems == generate_xml_report(result, right_db.row_counts_before_sql,
                                         after_counts_of(right_db)).row_counts
        IN  /\ Len(printed.rows) = Cardinality(union)
            /\ \A key \in union :
                   /\ Cardinality({i \in 1..Len(printed.rows) :
                                       printed.rows[i][1] = key}) = 1
                   /\ \A i \in 1..Len(printed.rows) :
                          printed.rows[i][1] = key =>
                              StatusWord(printed.rows[i][5])
                                  = RowCountClass(BeforeMap, AfterMap, key)
                   /\ Cardinality({i \in 1..Len(elems) : elems[i].name = key})
                          = IF RowCountClass(BeforeMap, AfterMap, key) = "match"
                            THEN 0 ELSE 1
                   /\ XmlClass(elems, key) = RowCountClass(BeforeMap, AfterMap, key)
            /\ \A i \in 1..Len(elems) : elems[i].name \in union
            /\ printed.differences =
                   Cardinality({key \in union :
                                   RowCountClass(BeforeMap, AfterMap, key) # "match"})
            /\ (pc = "done" /\ "row_counts" \in DOMAIN console[1]) =>
                   /\ console[1].row_counts = printed.rows
                   /\ console[1].differences = printed.differences
            /\ (pc = "done" /\ "xml" \in DOMAIN console[1]) =>
                   console[1].xml.row_counts = elems

\* The SQL dropped orders, added a row to users; the row count table was
\* printed with one removed and one modified row, and 2 reported.
C16_Witness ==
    /\ pc = "done"
    /\ "row_counts" \in DOMAIN console[1]
    /\ BeforeMap = (Table_key(TableRow(Public, Users)) :> 1
                    @@ Table_key(TableRow(Public, Orders)) :> 2)
    /\ AfterMap = (Table_key(TableRow(Public, Users)) :> 2)
    /\ console[1].differences = 2
    /\ {StatusWord(console[1].row_counts[i][5]) : i \in 1..Len(console[1].row_counts)}
           = {"modified", "removed"}

(***************************************************************************)
(* C17                                                                     *)
(***************************************************************************)
\* The name attribute of an object of the snapshot, as a node of class cls
\* shows it when it shows the local name.
LocalName(cls, obj) ==
    CASE cls = "SchemaAnalysis" -> obj.schema_name
      [] cls = "TableAnalysis" -> obj.table_name
      [] cls = "ColumnAnalysis" -> obj.column_name
      [] cls = "TriggerAnalysis" -> obj.trigger_name
      [] cls = "IndexAnalysis" -> obj.index_name
      [] cls = "ConstraintAnalysis" -> obj.constraint_name
      [] cls = "ViewAnalysis" -> obj.table_name
      [] cls = "MaterializedViewAnalysis" -> obj.matview_name
      [] cls = "FunctionAnalysis" ->
             obj.function_name \o <<"(">> \o obj.argument_types \o <<")">>

\* The object a node stands for on one side: the one it refers to, and for
\* a schema node, which refers to none, the schema the snapshot holds under
\* the node's name.
NodeObject(row, db, object) ==
    IF row.cls = "SchemaAnalysis" THEN DictGet(db.schemas, row.name) ELSE object

NameIsLocal(row) ==
    /\ row.in_left =>
           LET o == NodeObject(row, left_db, row.left_object)
           IN  Truthy(o) /\ row.name = LocalName(row.cls, Val(o))
    /\ row.in_right =>
           LET o == NodeObject(row, right_db, row.right_object)
           IN  Truthy(o) /\ row.name = LocalName(row.cls, Val(o))

\* C17: the name of every node of the tree is the local name of the object
\* it stands for (for a function, its name and argument list), without the
\* owning schema or table.
C17_NodeNameIsLocal ==
    Analyzed => Every(TreeRows, NameIsLocal)

\* The same for every node that is not a constraint node.
C17_NonConstraintNodeNameIsLocal ==
    Analyzed => Every(TreeRows, LAMBDA row : row.cls # "ConstraintAnalysis" => NameIsLocal(row))

\* The tree has a node of every class but ConstraintAnalysis somewhere; here
\* one with a function and a column.
C17_Witness ==
    /\ Analyzed
    /\ Exists(TreeRows, LAMBDA row : row.cls = "FunctionAnalysis" /\ row.in_left)
    /\ Exists(TreeRows, LAMBDA row : row.cls = "ColumnAnalysis" /\ row.in_right)

(***************************************************************************)
(* main() on servers whose table names may contain '.'                     *)
(***************************************************************************)
\* The table name users.log, beside the table users of the same schema.
UsersDotLog == Users \o Dot \o Log

DottedLeaves ==
    {[kind |-> "columns", parent |-> Table_key(TableRow(Public, Users)),
      obj |-> ColumnRow(Public, Users, <<"i", "d">>, "integer")],
     [kind |-> "columns", parent |-> Table_key(TableRow(Public, UsersDotLog)),
      obj |-> ColumnRow(Public, UsersDotLog, <<"i", "d">>, "integer")],
     [kind |-> "triggers", parent |-> Table_key(TableRow(Public, UsersDotLog)),
      obj |-> [TriggerRow("EXECUTE FUNCTION f()") EXCEPT !.event_object_table = UsersDotLog]],
     [kind |-> "indexes", parent |-> Table_key(TableRow(Public, UsersDotLog)),
      obj |-> [IndexRow(IndexDef) EXCEPT !.table_name = UsersDotLog]],
     [kind |-> "constraints", parent |-> Table_key(TableRow(Public, UsersDotLog)),
      obj |-> [ConstraintRow(CheckAge) EXCEPT !.table_name = UsersDotLog]]}

\* A server holds users, users.log or both, and any of the objects above
\* whose table it holds.
DottedContents ==
    {c \in [skeleton : {[schemas |-> {SchemaRow(Public)}, tables |-> t] :
                           t \in (SUBSET {TableRow(Public, Users),
                                          TableRow(Public, UsersDotLog)}) \ {{}}},
            leaves : SUBSET DottedLeaves] :
        \A row \in c.leaves : row.parent \in {Table_key(t) : t \in c.skeleton.tables}}

ConnectLeftDotted ==
    /\ pc = "connect_left"
    /\ \E c \in DottedContents : left_db' = fetch_all(Catalog(c))
    /\ pc' = "connect_right"
    /\ UNCHANGED <<right_db, result, console, definition_in, normalized>>

ConnectRightDotted ==
    /\ pc = "connect_right"
    /\ \E c \in DottedContents : right_db' = fetch_all(Catalog(c))
    /\ pc' = "analyze"
    /\ UNCHANGED <<left_db, result, console, definition_in, normalized>>

DottedNext ==
    \/ ConnectLeftDotted
    \/ ConnectLeftError
    \/ ConnectRightDotted
    \/ ConnectRightError
    \/ Analyze

SpecDotted == Init /\ [][DottedNext]_vars

(***************************************************************************)
(* C18                                                                     *)
(***************************************************************************)
\* The schema and table an object of a child kind belongs to.
OwnerOf(kind, o) ==
    CASE kind = "columns" -> <<o.table_schema, o.table_name>>
      [] kind = "triggers" -> <<o.event_object_schema, o.event_object_table>>
      [] kind = "indexes" -> <<o.schema_name, o.table_name>>
      [] kind = "constraints" -> <<o.table_schema, o.table_name>>

\* The child nodes of kind `kind` under the table node t stand for exactly
\* the objects of that kind the two snapshots hold for t's schema and table.
ScopedChildren(t, kind) ==
    LET owner == <<Val(t.left_object).table_schema, Val(t.left_object).table_name>>
        rows == t[kind]
    IN  /\ \A i \in 1..Len(rows) : rows[i].in_left \/ rows[i].in_right
        /\ {Val(rows[i].left_object) : i \in {j \in 1..Len(rows) : rows[j].in_left}}
               = {left_db[kind][i].v :
                     i \in {j \in 1..Len(left_db[kind]) :
                               OwnerOf(kind, left_db[kind][j].v) = owner}}
        /\ {Val(rows[i].right_object) : i \in {j \in 1..Len(rows) : rows[j].in_right}}
               = {right_db[kind][i].v :
                     i \in {j \in 1..Len(right_db[kind]) :
                               OwnerOf(kind, right_db[kind][j].v) = owner}}

TablesOnBothSides ==
    {TreeRows[i] : i \in {j \in 1..Len(TreeRows) :
                             /\ TreeRows[j].cls = "TableAnalysis"
                             /\ TreeRows[j].in_left
                             /\ TreeRows[j].in_right}}

\* C18: under every table node present on both sides, the column, trigger,
\* index and constraint nodes stand for exactly the objects of the two
\* snapshots whose owning schema and table are that table's, also when a
\* table name contains '.' or is a dotted prefix of another's.
C18_ChildScoping ==
    Analyzed =>
        \A t \in TablesOnBothSides :
            \A kind \in {"columns", "triggers", "indexes", "constraints"} :
                ScopedChildren(t, kind)

\* The same for the trigger, index and constraint nodes alone.
C18_ChildScopingByOwnerFields ==
    Analyzed =>
        \A t \in TablesOnBothSides :
            \A kind \in {"triggers", "indexes", "constraints"} : ScopedChildren(t, kind)

\* users and users.log are on both sides, and users.log has a trigger, an
\* index and a constraint on the left.
C18_Witness ==
    /\ Analyzed
    /\ Cardinality(TablesOnBothSides) = 2
    /\ \E t \in TablesOnBothSides :
           /\ t.name = UsersDotLog
           /\ Len(t.triggers) = 1 /\ Len(t.indexes) = 1 /\ Len(t.constraints) = 1

(***************************************************************************)
(* C19                                                                     *)
(***************************************************************************)
\* The definitions of the servers grouped by what they say: the printings of
\* age >= 0 that differ in whitespace, punctuation and ::text or
\* ::character varying[] casts are one group.
DefinitionGroup(d) ==
    CASE d = None -> "none"
      [] d \in {Some(CheckAge), Some(CheckAgeSpaced), Some(CheckAgeTextCast),
                Some(CheckAgeVaryingArrayCast)} -> "age >= 0"
      [] d = Some(CheckAgeIntegerCast) -> "age::integer >= 0"
      [] d = Some(CheckAgeOne) -> "age >= 1"

\* What get_modifications() of a constraint node on both sides is to list.
ConstraintModifications(left, right) ==
    (IF left.constraint_type # right.constraint_type
     THEN <<"type: " \o right.constraint_type \o " -> " \o left.constraint_type>>
     ELSE <<>>)
    \o (IF DefinitionGroup(left.constraint_definition)
               # DefinitionGroup(right.constraint_definition)
        THEN <<"definition changed">>
        ELSE <<>>)

\* The rows read of constraint nodes present on both sides, each with its
\* node.
ConstraintPairsRead ==
    {[node |-> TreeRows[i], read |-> console[1].rows[i]] :
        i \in {j \in 1..Len(TreeRows) :
                  /\ TreeRows[j].cls = "ConstraintAnalysis"
                  /\ TreeRows[j].in_left
                  /\ TreeRows[j].in_right}}

\* C19: for a constraint on both sides, get_modifications() lists the type
\* change first iff the types differ and then "definition changed" iff the
\* definitions differ after normalization (definitions that differ only in
\* stripped casts, punctuation or whitespace list nothing), the two
\* definitions are equal after normalization iff they are of one group, and
\* modification_detail of a modified constraint shows both definitions as
\* the servers printed them.
C19_ConstraintComparison ==
    pc = "read" =>
        \A p \in ConstraintPairsRead :
            LET left == Val(p.node.left_object)
                right == Val(p.node.right_object)
            IN  /\ p.read.get_modifications = ConstraintModifications(left, right)
                /\ (normalize_constraint_definition(left.constraint_definition)
                        = normalize_constraint_definition(right.constraint_definition))
                       <=> (DefinitionGroup(left.constraint_definition)
                                = DefinitionGroup(right.constraint_definition))
                /\ p.read.action = IF p.read.get_modifications = <<>> THEN NONE ELSE MODIFY
                /\ p.read.modification_detail =
                       IF p.read.get_modifications = <<>> THEN ""
                       ELSE "replace constraint " \o Join(full_name(p.node))
                                \o "\n  old: " \o PyStrDef(right.constraint_definition)
                                \o "\n  new: " \o PyStrDef(left.constraint_definition)

\* age_check is a CHECK with a ::character varying[] cast on the left and a
\* UNIQUE printed with other spacing on the right: only the type change is
\* listed, and the detail shows both printings.
C19_Witness ==
    /\ pc = "read"
    /\ \E p \in ConstraintPairsRead :
           /\ Val(p.node.left_object).constraint_definition = Some(CheckAgeVaryingArrayCast)
           /\ Val(p.node.right_object).constraint_definition = Some(CheckAgeSpaced)
           /\ p.read.get_modifications = <<"type: UNIQUE -> CHECK">>
           /\ p.read.modification_detail =
                  "replace constraint public.users.age_check"
                      \o "\n  old: CHECK ( age  >=\n 0 )"
                      \o "\n  new: CHECK ((age)::character varying[] >= 0)"

(***************************************************************************)
(* main() on servers whose table users has the index ix in several         *)
(* variants, through the read of the tree                                  *)
(***************************************************************************)
\* The definition of another index than IndexDef.
IndexDefEmail ==
    <<"C", "R", "E", "A", "T", "E", " ", "I", "N", "D", "E", "X", " ", "i", "x", " ",
      "O", "N", " ", "u", "s", "e", "r", "s", " ", "(", "e", "m", "a", "i", "l", ")">>

IndexVariants ==
    {[IndexRow(definition) EXCEPT !.is_unique = unique, !.is_primary = primary] :
        definition \in {IndexDef, IndexDefSpaced, IndexDefEmail},
        unique \in BOOLEAN,
        primary \in BOOLEAN}

\* A server with the table public.users and at most one variant of ix.
IndexContents ==
    {[skeleton |-> [schemas |-> {SchemaRow(Public)},
                    tables |-> {TableRow(Public, Users)}],
      leaves |-> {[kind |-> "indexes",
                   parent |-> Table_key(TableRow(Public, Users)),
                   obj |-> obj] : obj \in objs}] :
        objs \in {{}} \cup {{x} : x \in IndexVariants}}

ConnectLeftIndexes ==
    /\ pc = "connect_left"
    /\ \E c \in IndexContents : left_db' = fetch_all(Catalog(c))
    /\ pc' = "connect_right"
    /\ UNCHANGED <<right_db, result, console, definition_in, normalized>>

ConnectRightIndexes ==
    /\ pc = "connect_right"
    /\ \E c \in IndexContents : right_db' = fetch_all(Catalog(c))
    /\ pc' = "analyze"
    /\ UNCHANGED <<left_db, result, console, definition_in, normalized>>

IndexesNext ==
    \/ ConnectLeftIndexes
    \/ ConnectLeftError
    \/ ConnectRightIndexes
    \/ ConnectRightError
    \/ Analyze
    \/ ReadRows

SpecIndexes == Init /\ [][IndexesNext]_vars

(***************************************************************************)
(* C20                                                                     *)
(***************************************************************************)
\* The rows read of index nodes present on both sides, each with its node.
IndexPairsRead ==
    {[node |-> TreeRows[i], read |-> console[1].rows[i]] :
        i \in {j \in 1..Len(TreeRows) :
                  /\ TreeRows[j].cls = "IndexAnalysis"
                  /\ TreeRows[j].in_left
                  /\ TreeRows[j].in_right}}

\* The flag changes get_modifications() of an index node is to list first.
IndexFlagModifications(left, right) ==
    (IF left.is_unique # right.is_unique
     THEN <<"unique: " \o PyStr(right.is_unique) \o " -> " \o PyStr(left.is_unique)>>
     ELSE <<>>)
    \o (IF left.is_primary # right.is_primary
        THEN <<"primary: " \o PyStr(right.is_primary) \o " -> " \o PyStr(left.is_primary)>>
        ELSE <<>>)

ViewDefEmail ==
    <<"S", "E", "L", "E", "C", "T", " ", "e", "m", "a", "i", "l", " ", "F", "R", "O",
      "M", " ", "u", "s", "e", "r", "s", ";">>

ViewVariants ==
    {[ViewRow(definition) EXCEPT !.is_updatable = updatable,
                                 !.is_insertable_into = insertable] :
        definition \in {ViewDef, ViewDefIndented, ViewDefEmail},
        updatable \in {"YES", "NO"},
        insertable \in {"YES", "NO"}}

MaterializedViewVariants ==
    {[MaterializedViewRow(definition) EXCEPT !.is_populated = populated] :
        definition \in {ViewDef, ViewDefIndented},
        populated \in BOOLEAN}

\* A server with the schema public and at most one variant of v and of mv.
ViewContents ==
    {[skeleton |-> [schemas |-> {SchemaRow(Public)}, tables |-> {}],
      leaves |-> {[kind |-> "views", parent |-> Public, obj |-> obj] : obj \in vs}
                 \cup {[kind |-> "materialized_views", parent |-> Public, obj |-> obj] :
                          obj \in ms}] :
        vs \in {{}} \cup {{x} : x \in ViewVariants},
        ms \in {{}} \cup {{x} : x \in MaterializedViewVariants}}

ConnectLeftViews ==
    /\ pc = "connect_left"
    /\ \E c \in ViewContents : left_db' = fetch_all(Catalog(c))
    /\ pc' = "connect_right"
    /\ UNCHANGED <<right_db, result, console, definition_in, normalized>>

ConnectRightViews ==
    /\ pc = "connect_right"
    /\ \E c \in ViewContents : right_db' = fetch_all(Catalog(c))
    /\ pc' = "analyze"
    /\ UNCHANGED <<left_db, result, console, definition_in, normalized>>

ViewsNext ==
    \/ ConnectLeftViews
    \/ ConnectLeftError
    \/ ConnectRightViews
    \/ ConnectRightError
    \/ Analyze
    \/ ReadRows

SpecViews == Init /\ [][ViewsNext]_vars

(***************************************************************************)
(* C21                                                                     *)
(***************************************************************************)
\* The rows read of nodes of class cls present on both sides, each with its
\* node.
PairsRead(cls) ==
    {[node |-> TreeRows[i], read |-> console[1].rows[i]] :
        i \in {j \in 1..Len(TreeRows) :
                  /\ TreeRows[j].cls = cls
                  /\ TreeRows[j].in_left
                  /\ TreeRows[j].in_right}}

\* The flag changes get_modifications() of a view node is to list first.
ViewFlagModifications(left, right) ==
    (IF left.is_updatable # right.is_updatable
     THEN <<"updatable: " \o right.is_updatable \o " -> " \o left.is_updatable>>
     ELSE <<>>)
    \o (IF left.is_insertable_into # right.is_insertable_into
        THEN <<"insertable: " \o right.is_insertable_into
                   \o " -> " \o left.is_insertable_into>>
        ELSE <<>>)

DefinitionChangedIf(cond) == IF cond THEN <<"definition changed">> ELSE <<>>

ActionFromModifications(read) ==
    read.action = IF read.get_modifications = <<>> THEN NONE ELSE MODIFY

ColumnVariants ==
    {[ColumnRow(Public, Users, <<"i", "d">>, data_type) EXCEPT
         !.character_maximum_length = max_length,
         !.numeric_precision = precision,
         !.numeric_scale = scale,
         !.is_nullable = nullable,
         !.column_default = default] :
        data_type \in {"integer", "text"},
        max_length \in {None, Some(255)},
        precision \in {None, Some(32)},
        scale \in {Some(0), Some(2)},
        nullable \in {"YES", "NO"},
        default \in {None, Some("0")}}

TriggerVariants ==
    {[TriggerRow(statement) EXCEPT
         !.event_manipulation = event,
         !.action_timing = timing,
         !.action_orientation = orientation] :
        statement \in {"EXECUTE FUNCTION f()", "EXECUTE FUNCTION g()"},
        event \in {"INSERT", "UPDATE"},
        timing \in {"BEFORE", "AFTER"},
        orientation \in {"ROW", "STATEMENT"}}

FunctionVariants ==
    {[FunctionRow(body) EXCEPT
         !.return_type = return_type,
         !.language = language,
         !.is_strict = strict,
         !.volatility = volatility] :
        body \in {"BEGIN END", "BEGIN NULL; END"},
        return_type \in {None, Some("void")},
        language \in {"plpgsql", "sql"},
        strict \in BOOLEAN,
        volatility \in {"VOLATILE", "STABLE"}}

\* The objects of one kind a server can hold, each with the key of what
\* holds it.
FieldLeaves(kind) ==
    CASE kind = "columns" ->
             {[kind |-> kind, parent |-> Table_key(TableRow(Public, Users)), obj |-> o] :
                 o \in ColumnVariants}
      [] kind = "triggers" ->
             {[kind |-> kind, parent |-> Table_key(TableRow(Public, Users)), obj |-> o] :
                 o \in TriggerVariants}
      [] kind = "indexes" ->
             {[kind |-> kind, parent |-> Table_key(TableRow(Public, Users)), obj |-> o] :
                 o \in IndexVariants}
      [] kind = "constraints" ->
             {[kind |-> kind, parent |-> Table_key(TableRow(Public, Users)), obj |-> o] :
                 o \in AgeCheckRows}
      [] kind = "functions" ->
             {[kind |-> kind, parent |-> Public, obj |-> o] : o \in FunctionVariants}
      [] kind = "views" ->
             {[kind |-> kind, parent |-> Public, obj |-> o] : o \in ViewVariants}
      [] kind = "materialized_views" ->
             {[kind |-> kind, parent |-> Public, obj |-> o] :
                 o \in MaterializedViewVariants}

FieldKinds ==
    {"columns", "triggers", "indexes", "constraints", "functions", "views",
     "materialized_views"}

\* A server with the table public.users and one object of the given kind.
FieldContents(kind) ==
    {[skeleton |-> [schemas |-> {SchemaRow(Public)},
                    tables |-> {TableRow(Public, Users)}],
      leaves |-> {leaf}] : leaf \in FieldLeaves(kind)}

ConnectLeftFields ==
    /\ pc = "connect_left"
    /\ \E kind \in FieldKinds :
           \E c \in FieldContents(kind) : left_db' = fetch_all(Catalog(c))
    /\ pc' = "connect_right"
    /\ UNCHANGED <<right_db, result, console, definition_in, normalized>>

\* The right server holds an object of the kind the left one holds.
ConnectRightFields ==
    /\ pc = "connect_right"
    /\ \E kind \in FieldKinds :
           /\ left_db[kind] # EmptyDict
           /\ \E c \in FieldContents(kind) : right_db' = fetch_all(Catalog(c))
    /\ pc' = "analyze"
    /\ UNCHANGED <<left_db, result, console, definition_in, normalized>>

FieldsNext ==
    \/ ConnectLeftFields
    \/ ConnectLeftError
    \/ ConnectRightFields
    \/ ConnectRightError
    \/ Analyze
    \/ ReadRows

SpecFields == Init /\ [][FieldsNext]_vars

(***************************************************************************)
(* C22                                                                     *)
(***************************************************************************)
\* The compared fields of an object of a node of class cls, in the order the
\* claim gives: the label of the field, its value, and the text a change
\* description shows for it (no text for a field whose change is described
\* by its label alone).
ComparedFields(cls, o) ==
    CASE cls = "ColumnAnalysis" ->
             <<[label |-> "type", value |-> <<o.data_type>>, text |-> <<o.data_type>>],
               [label |-> "max_length", value |-> <<o.character_maximum_length>>,
                text |-> <<PyStrOpt(o.character_maximum_length)>>],
               [label |-> "precision", value |-> <<o.numeric_precision>>,
                text |-> <<PyStrOpt(o.numeric_precision)>>],
               [label |-> "scale", value |-> <<o.numeric_scale>>,
                text |-> <<PyStrOpt(o.numeric_scale)>>],
               [label |-> "nullable", value |-> <<o.is_nullable>>,
                text |-> <<IF o.is_nullable = "YES" THEN "null" ELSE "not null">>],
               [label |-> "default", value |-> <<o.column_default>>,
                text |-> <<PyStrOrNone(o.column_default)>>]>>
      [] cls = "TriggerAnalysis" ->
             <<[label |-> "event", value |-> <<o.event_manipulation>>,
                text |-> <<o.event_manipulation>>],
               [label |-> "timing", value |-> <<o.action_timing>>,
                text |-> <<o.action_timing>>],
               [label |-> "orientation", value |-> <<o.action_orientation>>,
                text |-> <<o.action_orientation>>],
               [label |-> "statement changed", value |-> <<o.action_statement>>,
                text |-> <<>>]>>
      [] cls = "FunctionAnalysis" ->
             <<[label |-> "return_type", value |-> <<o.return_type>>,
                text |-> <<PyStrOrNone(o.return_type)>>],
               [label |-> "language", value |-> <<o.language>>, text |-> <<o.language>>],
               [label |-> "strict", value |-> <<o.is_strict>>,
                text |-> <<PyStr(o.is_strict)>>],
               [label |-> "volatility", value |-> <<o.volatility>>,
                text |-> <<o.volatility>>],
               [label |-> "body changed", value |-> <<o.function_definition>>,
                text |-> <<>>]>>
      [] cls = "IndexAnalysis" ->
             <<[label |-> "unique", value |-> <<o.is_unique>>,
                text |-> <<PyStr(o.is_unique)>>],
               [label |-> "primary", value |-> <<o.is_primary>>,
                text |-> <<PyStr(o.is_primary)>>],
               [label |-> "definition changed", value |-> <<o.index_definition>>,
                text |-> <<>>]>>
      [] cls = "ConstraintAnalysis" ->
             <<[label |-> "type", value |-> <<o.constraint_type>>,
                text |-> <<o.constraint_type>>],
               [label |-> "definition changed",
                value |-> <<normalize_constraint_definition(o.constraint_definition)>>,
                text |-> <<>>]>>
      [] cls = "ViewAnalysis" ->
             <<[label |-> "updatable", value |-> <<o.is_updatable>>,
                text |-> <<o.is_updatable>>],
               [label |-> "insertable", value |-> <<o.is_insertable_into>>,
                text |-> <<o.is_insertable_into>>],
               [label |-> "definition changed", value |-> <<o.view_definition>>,
                text |-> <<>>]>>
      [] cls = "MaterializedViewAnalysis" ->
             <<[label |-> "definition changed", value |-> <<o.definition>>,
                text |-> <<>>]>>

\* The positions of the compared fields on which two objects differ, in
\* ascending order.
RECURSIVE DifferingFrom(_, _, _)
DifferingFrom(old, new, i) ==
    IF i > Len(old) THEN <<>>
    ELSE (IF old[i].value # new[i].value THEN <<i>> ELSE <<>>)
         \o DifferingFrom(old, new, i + 1)

\* The change description of a field from its old to its new state.
ChangeDescription(old, new) ==
    IF old.text = <<>> THEN old.label
    ELSE old.label \o ": " \o old.text[1] \o " -> " \o new.text[1]

\* C22: for a column, trigger or function node on both sides,
\* get_modifications() has exactly one entry per compared field on which
\* the two objects differ, none for an equal field, and the entries follow
\* the fixed order of the fields of the kind, whichever fields differ.
C22_FieldOrder ==
    pc = "read" =>
        \A cls \in {"ColumnAnalysis", "TriggerAnalysis", "FunctionAnalysis"} :
            \A p \in PairsRead(cls) :
                LET l == ComparedFields(cls, Val(p.node.left_object))
                    r == ComparedFields(cls, Val(p.node.right_object))
                    differing == DifferingFrom(r, l, 1)
                    mods == p.read.get_modifications
                IN  /\ Len(mods) = Len(differing)
                    /\ \A i \in 1..Len(differing) :
                           mods[i] \in {ChangeDescription(r[differing[i]], l[differing[i]]),
                                        ChangeDescription(l[differing[i]], r[differing[i]])}

\* A column on both sides that differs in every field but the type and the
\* precision has been read.
C22_Witness ==
    /\ pc = "read"
    /\ \E p \in PairsRead("ColumnAnalysis") :
           p.read.get_modifications =
               <<"max_length: None -> 255", "scale: 0 -> 2",
                 "nullable: not null -> null", "default: 0 -> None">>

(***************************************************************************)
(* C23                                                                     *)
(***************************************************************************)
LeafClasses ==
    {"ColumnAnalysis", "TriggerAnalysis", "IndexAnalysis", "ConstraintAnalysis",
     "FunctionAnalysis", "ViewAnalysis", "MaterializedViewAnalysis"}

\* The header of the modification_detail of a node of class cls.
DetailHead(cls) ==
    CASE cls = "ColumnAnalysis" -> "alter column "
      [] cls = "TriggerAnalysis" -> "replace trigger "
      [] cls = "IndexAnalysis" -> "recreate index "
      [] cls = "ConstraintAnalysis" -> "replace constraint "
      [] cls = "FunctionAnalysis" -> "replace function "
      [] cls = "ViewAnalysis" -> "replace view "
      [] cls = "MaterializedViewAnalysis" -> "replace materialized view "

\* The text that an old or new line of a modification_detail shows for an
\* object of a node of class cls.
DetailText(cls, o) ==
    CASE cls = "ColumnAnalysis" -> _format_column_spec(o)
      [] cls = "TriggerAnalysis" ->
             JoinWith(" ", <<o.action_timing, o.event_manipulation, o.action_orientation>>)
      [] cls = "IndexAnalysis" -> Join(o.index_definition)
      [] cls = "ConstraintAnalysis" -> PyStrDef(o.constraint_definition)
      [] cls = "ViewAnalysis" -> PyStrDef(o.view_definition)
      [] cls = "MaterializedViewAnalysis" -> Join(o.definition)

\* The change descriptions of the fields on which old and new differ, each
\* from the old value to the new value.
Descriptions(old, new) ==
    LET differing == DifferingFrom(old, new, 1)
    IN  [i \in 1..Len(differing) |->
             ChangeDescription(old[differing[i]], new[differing[i]])]

\* C23: for a node of any kind on both sides, every valued change
\* description reads "field: old -> new" with old the value of the right
\* object and new the value of the left object, and the old and new lines of
\* modification_detail show the right object and the left object in that
\* order (the detail of a function lists its change descriptions instead).
C23_Direction ==
    pc = "read" =>
        \A cls \in LeafClasses :
            \A p \in PairsRead(cls) :
                LET left == Val(p.node.left_object)
                    right == Val(p.node.right_object)
                    mods == Descriptions(ComparedFields(cls, right),
                                         ComparedFields(cls, left))
                IN  /\ p.read.get_modifications = mods
                    /\ mods # <<>> =>
                           p.read.modification_detail =
                               IF cls = "FunctionAnalysis"
                               THEN JoinWith("\n",
                                        <<DetailHead(cls) \o Join(full_name(p.node))>>
                                        \o [i \in 1..Len(mods) |-> "  " \o mods[i]])
                               ELSE JoinWith("\n",
                                        <<DetailHead(cls) \o Join(full_name(p.node)),
                                          "  old: " \o DetailText(cls, right),
                                          "  new: " \o DetailText(cls, left)>>)

\* A trigger that fires AFTER on the right and BEFORE on the left has been
\* read.
C23_Witness ==
    /\ pc = "read"
    /\ \E p \in PairsRead("TriggerAnalysis") :
           /\ Val(p.node.right_object).action_timing = "AFTER"
           /\ Val(p.node.left_object).action_timing = "BEFORE"
           /\ p.read.get_modifications = <<"timing: AFTER -> BEFORE">>
           /\ p.read.modification_detail =
                  JoinWith("\n", <<"replace trigger " \o Join(full_name(p.node)),
                                   "  old: AFTER INSERT ROW", "  new: BEFORE INSERT ROW">>)

(***************************************************************************)
(* C24                                                                     *)
(***************************************************************************)
\* C24: has_differences() is true iff is_different of some schema node of
\* the tree is true, and iff count_differences() is greater than 0.
C24_DifferencesAgree ==
    pc = "read" =>
        LET read == console[1]
            some_schema_different ==
                \E i \in 1..Len(TreeRows) :
                    /\ TreeRows[i].cls = "SchemaAnalysis"
                    /\ read.rows[i].is_different
        IN  /\ read.has_differences <=> some_schema_different
            /\ some_schema_different <=> read.count_differences > 0

\* A tree has been read in which the only difference is a trigger of a
\* table that both sides have: the schema is different and the count is 1.
C24_Witness ==
    /\ pc = "read"
    /\ console[1].has_differences
    /\ console[1].count_differences = 1
    /\ \E i \in 1..Len(TreeRows) :
           /\ TreeRows[i].cls = "TriggerAnalysis"
           /\ console[1].rows[i].is_different
    /\ \E i \in 1..Len(TreeRows) :
           /\ TreeRows[i].cls = "SchemaAnalysis"
           /\ TwoSided(TreeRows[i])
           /\ console[1].rows[i].is_different

(***************************************************************************)
(* C25                                                                     *)
(***************************************************************************)
\* C25: a schema or table node present on both sides has action NONE and an
\* empty action_description, whatever its is_different; a leaf node has
\* action NONE iff its is_different is false.
C25_ContainersNeverModify ==
    pc = "read" =>
        \A i \in 1..Len(TreeRows) :
            LET row == TreeRows[i]
                read == console[1].rows[i]
            IN  IF row.cls \in {"SchemaAnalysis", "TableAnalysis"}
                THEN TwoSided(row) =>
                         /\ read.action = NONE
                         /\ read.action_description = ""
                ELSE read.action = NONE <=> ~read.is_different

\* A schema and a table of it, both present on both sides and both
\* different because a column of the table was modified, have been read.
C25_Witness ==
    /\ pc = "read"
    /\ \E i, j, k \in 1..Len(TreeRows) :
           /\ TreeRows[i].cls = "SchemaAnalysis"
           /\ TreeRows[j].cls = "TableAnalysis"
           /\ TreeRows[k].cls = "ColumnAnalysis"
           /\ TwoSided(TreeRows[i])
           /\ TwoSided(TreeRows[j])
           /\ console[1].rows[i].is_different
           /\ console[1].rows[j].is_different
           /\ console[1].rows[i].action = NONE
           /\ console[1].rows[j].action_description = ""
           /\ console[1].rows[k].action = MODIFY

(***************************************************************************)
(* C26                                                                     *)
(***************************************************************************)
\* The composite key under which the snapshot stores the object of a node
\* of class cls.
ObjectKey(cls, obj) ==
    CASE cls = "TableAnalysis" -> Table_key(obj)
      [] cls = "ColumnAnalysis" -> Column_key(obj)
      [] cls = "TriggerAnalysis" -> Trigger_key(obj)
      [] cls = "IndexAnalysis" -> Index_key(obj)
      [] cls = "ConstraintAnalysis" -> Constraint_key(obj)
      [] cls = "ViewAnalysis" -> View_key(obj)
      [] cls = "MaterializedViewAnalysis" -> MaterializedView_key(obj)
      [] cls = "FunctionAnalysis" -> Function_key(obj)

FullNameIsKey(row) ==
    /\ row.in_left => full_name(row) = ObjectKey(row.cls, Val(row.left_object))
    /\ row.in_right => full_name(row) = ObjectKey(row.cls, Val(row.right_object))

\* C26: full_name of every table, column, index, constraint, trigger, view,
\* materialized view and function node of the tree is the key under which
\* the snapshot stores the object the node stands for, also for names that
\* contain '.'.
C26_FullNameIsKey ==
    Analyzed =>
        Every(TreeRows, LAMBDA row : row.cls # "SchemaAnalysis" => FullNameIsKey(row))

\* The same for every node that is not a column node.
C26_NonColumnFullNameIsKey ==
    Analyzed =>
        Every(TreeRows,
              LAMBDA row : row.cls \notin {"SchemaAnalysis", "ColumnAnalysis"} =>
                               FullNameIsKey(row))

\* The tree has the table users.log with a trigger, an index and a
\* constraint, and the table users with a column node.
C26_Witness ==
    /\ Analyzed
    /\ Exists(TreeRows, LAMBDA row : row.cls = "TableAnalysis" /\ row.name = UsersDotLog)
    /\ Exists(TreeRows, LAMBDA row : row.cls = "TriggerAnalysis")
    /\ Exists(TreeRows, LAMBDA row : row.cls = "IndexAnalysis")
    /\ Exists(TreeRows, LAMBDA row : row.cls = "ConstraintAnalysis")
    /\ Exists(TreeRows, LAMBDA row : row.cls = "ColumnAnalysis" /\ row.table_name = Users)

(***************************************************************************)
(* C27                                                                     *)
(***************************************************************************)
\* Some table's row count before the SQL differs from its row count after
\* it (a table only one of the two maps has counts as differing).
RowCountsDiffer ==
    \E key \in DOMAIN BeforeMap \cup DOMAIN AfterMap :
        RowCountClass(BeforeMap, AfterMap, key) # "match"

\* What main() returns once it has returned.
ExitCode == IF pc = "return_1" THEN 1 ELSE console[1].exit

\* C27: main() returns 1 when a snapshot could not be gathered; otherwise,
\* with the SQL applied, it returns 2 iff the analysis has differences or
\* some table's row count differs, and 0 otherwise, with and without --xml.
C27_ExitCode ==
    /\ pc = "return_1" => ExitCode = 1
    /\ pc = "done" =>
           ExitCode = IF has_differences(result) \/ RowCountsDiffer THEN 2 ELSE 0

\* The same without --xml; with --xml, main() returns 2 iff the analysis has
\* differences, whatever the row counts.
C27_ExitCodeByMode ==
    /\ pc = "return_1" => ExitCode = 1
    /\ (pc = "done" /\ "xml" \notin DOMAIN console[1]) =>
           ExitCode = IF has_differences(result) \/ RowCountsDiffer THEN 2 ELSE 0
    /\ (pc = "done" /\ "xml" \in DOMAIN console[1]) =>
           ExitCode = IF has_differences(result) THEN 2 ELSE 0

\* Without --xml, main() has returned 2 for two databases without schema
\* differences, because the SQL changed a row count.
C27_Witness ==
    /\ pc = "done"
    /\ "xml" \notin DOMAIN console[1]
    /\ ~has_differences(result)
    /\ RowCountsDiffer
    /\ ExitCode = 2

(***************************************************************************)
(* main() on servers that vary in what the tree does not compare: the      *)
(* owner of the schema, the row counts of the tables and the sequences     *)
(***************************************************************************)
SchemaOwners == {"postgres", "app"}

SequenceVariants == {[SequenceRow EXCEPT !.start_value = n] : n \in {1, 2}}

\* A server holds the schema public under one of two owners, the table
\* users with 0..MaxRows rows, with or without the table orders, with or
\* without the column id of users in one of two types, and at most one
\* sequence.
OutsideContents ==
    {[skeleton |-> [schemas |-> {[SchemaRow(Public) EXCEPT !.schema_owner = owner]},
                    tables |-> {CountedTable(Users, n)} \cup o],
      leaves |-> col \cup seq] :
        owner \in SchemaOwners,
        n \in 0..MaxRows,
        o \in {{}, {CountedTable(Orders, 0)}},
        col \in {{}} \cup
                {{[kind |-> "columns", parent |-> Table_key(TableRow(Public, Users)),
                   obj |-> ColumnRow(Public, Users, <<"i", "d">>, data_type)]} :
                    data_type \in {"integer", "text"}},
        seq \in {{}} \cup
                {{[kind |-> "sequences", parent |-> Public, obj |-> s]} :
                    s \in SequenceVariants}}

ConnectLeftOutside ==
    /\ pc = "connect_left"
    /\ \E c \in OutsideContents : left_db' = fetch_all(Catalog(c))
    /\ pc' = "connect_right"
    /\ UNCHANGED <<right_db, result, console, definition_in, normalized>>

ConnectRightOutside ==
    /\ pc = "connect_right"
    /\ \E c \in OutsideContents : right_db' = fetch_all(Catalog(c))
    /\ pc' = "analyze"
    /\ UNCHANGED <<left_db, result, console, definition_in, normalized>>

OutsideNext ==
    \/ ConnectLeftOutside
    \/ ConnectLeftError
    \/ ConnectRightOutside
    \/ ConnectRightError
    \/ Analyze
    \/ ReadRows

SpecOutside == Init /\ [][OutsideNext]_vars

(***************************************************************************)
(* C28                                                                     *)
(***************************************************************************)
\* TableAnalysis.row_count_differs
TableAnalysis_row_count_differs(row) ==
    IF ~(row.in_left /\ row.in_right) THEN FALSE
    ELSE Val(row.left_object).row_count # Val(row.right_object).row_count

\* A snapshot without what the tree does not compare: no sequences, and the
\* same owner, table type and row count everywhere.
WithoutOutsideFields(db) ==
    [db EXCEPT
        !.schemas = [i \in 1..Len(db.schemas) |->
                        [db.schemas[i] EXCEPT !.v.schema_owner = ""]],
        !.tables = [i \in 1..Len(db.tables) |->
                       [db.tables[i] EXCEPT !.v.table_type = "", !.v.row_count = None]],
        !.sequences = EmptyDict]

\* The rows of the tree of an analysis result, in the order of TreeRows.
RowsOf(res) == Concat(Comprehension(res.schemas, LAMBDA s : <<s>> \o SchemaDescendants(s)))

\* C28: action and is_different of every node, has_differences() and
\* count_differences() are those of the run on the two snapshots without
\* their sequences, schema owners, table types and row counts; of the
\* summary, only the count of the sequences can differ from that run.
C28_OutsideFieldsDoNotLeak ==
    pc = "read" =>
        LET plain == analyze_databases(WithoutOutsideFields(left_db),
                                       WithoutOutsideFields(right_db))
            plain_rows == RowsOf(plain)
            read == console[1]
        IN  /\ Len(read.rows) = Len(plain_rows)
            /\ \A i \in 1..Len(plain_rows) :
                   /\ TreeRows[i].cls = plain_rows[i].cls
                   /\ TreeRows[i].name = plain_rows[i].name
                   /\ read.rows[i].action = action(plain_rows[i])
                   /\ read.rows[i].is_different = is_different(plain_rows[i])
            /\ read.has_differences = has_differences(plain)
            /\ read.count_differences = count_differences(plain)
            /\ \A i \in 1..Len(result.summary) :
                   result.summary[i].object_type # "Sequences" =>
                       result.summary[i] = plain.summary[i]

\* Two servers that differ in the owner of the schema, in the row count of
\* users and in their sequences, and in nothing else, have been read: no
\* node is different, yet the row counts of the table node differ and so do
\* the counts of sequences of the summary.
C28_Witness ==
    /\ pc = "read"
    /\ ~console[1].has_differences
    /\ console[1].count_differences = 0
    /\ left_db.schemas[1].v.schema_owner # right_db.schemas[1].v.schema_owner
    /\ Len(left_db.sequences) # Len(right_db.sequences)
    /\ \E i \in 1..Len(TreeRows) :
           /\ TreeRows[i].cls = "TableAnalysis"
           /\ TableAnalysis_row_count_differs(TreeRows[i])
           /\ ~console[1].rows[i].is_different
           /\ Len(TreeRows[i].columns) = 1

(***************************************************************************)
(* C29                                                                     *)
(***************************************************************************)
WellFormed(row) ==
    /\ row.in_left \/ row.in_right
    /\ row.cls # "SchemaAnalysis" =>
           /\ Truthy(row.left_object) <=> row.in_left
           /\ Truthy(row.right_object) <=> row.in_right

\* C29: every node of the tree is in the left or in the right snapshot, and
\* every node but a schema node refers to a left object iff it is in the
\* left snapshot and to a right object iff it is in the right snapshot.
C29_NodeWellFormed ==
    Analyzed => Every(TreeRows, WellFormed)

\* The tree has a table on both sides with a leaf on the left only and a
\* leaf on the right only.
C29_Witness ==
    /\ Analyzed
    /\ Exists(TreeRows, LAMBDA t :
           /\ t.cls = "TableAnalysis"
           /\ TwoSided(t)
           /\ Exists(TableDescendants(t), LAMBDA row : row.in_left /\ ~row.in_right)
           /\ Exists(TableDescendants(t), LAMBDA row : row.in_right /\ ~row.in_left))

(***************************************************************************)
(* src/pgcmp/comparison.py: the flat comparison of two snapshots           *)
(***************************************************************************)
\* fields(obj) of the dataclass of the objects of a dict compared under
\* object_type, in declaration order.
fields(object_type) ==
    CASE object_type = "Schema" -> <<"schema_name", "schema_owner">>
      [] object_type = "Table" ->
             <<"table_schema", "table_name", "table_type", "row_count">>
      [] object_type = "View" ->
             <<"table_schema", "table_name", "view_definition", "is_updatable",
               "is_insertable_into">>

\* The orders in which a loop over a set can visit its elements.
Orderings(S) ==
    {q \in [1..Cardinality(S) -> S] :
        \A i, j \in 1..Cardinality(S) : i # j => q[i] # q[j]}

\* ObjectDiff(key, object_type, ...) with the defaults of the dataclass.
ObjectDiff(key, object_type) ==
    [key |-> key,
     object_type |-> object_type,
     left_only |-> FALSE,
     right_only |-> FALSE,
     left_value |-> None,
     right_value |-> None,
     differences |-> EmptyDict]

\* The loop over fields(left_obj): the dict of the fields not ignored whose
\* values differ, each with the (left, right) pair of values.
RECURSIVE FieldLoop(_, _, _, _)
FieldLoop(flds, ignore_fields, left_obj, right_obj) ==
    IF Len(flds) = 0 THEN EmptyDict
    ELSE LET n == Len(flds)
             differences == FieldLoop(SubSeq(flds, 1, n - 1), ignore_fields,
                                      left_obj, right_obj)
             name == flds[n]
         IN  IF name \in ignore_fields THEN differences
             ELSE IF left_obj[name] # right_obj[name]
             THEN Append(differences,
                         [k |-> name, v |-> <<left_obj[name], right_obj[name]>>])
             ELSE differences

\* The third loop of compare_objects over the keys of both dicts, visited
\* in the order both_keys.
RECURSIVE BothLoop(_, _, _, _, _)
BothLoop(both_keys, left_dict, right_dict, object_type, ignore_fields) ==
    IF Len(both_keys) = 0 THEN <<>>
    ELSE LET n == Len(both_keys)
             diffs == BothLoop(SubSeq(both_keys, 1, n - 1), left_dict, right_dict,
                               object_type, ignore_fields)
             key == both_keys[n]
             left_obj == Val(DictGet(left_dict, key))
             right_obj == Val(DictGet(right_dict, key))
             differences == FieldLoop(fields(object_type), ignore_fields,
                                      left_obj, right_obj)
         IN  IF differences # EmptyDict
             THEN Append(diffs,
                         [ObjectDiff(key, object_type) EXCEPT
                             !.left_value = Some(left_obj),
                             !.right_value = Some(right_obj),
                             !.differences = differences])
             ELSE diffs

\* compare_objects: the lists it can return, one for every order in which
\* its three loops can visit the sets of keys.
compare_objects(left_dict, right_dict, object_type, ignore_fields) ==
    LET left_keys == keys(left_dict)
        right_keys == keys(right_dict)
    IN  {[i \in 1..Len(lo) |->
              [ObjectDiff(lo[i], object_type) EXCEPT
                  !.left_only = TRUE,
                  !.left_value = DictGet(left_dict, lo[i])]]
         \o [i \in 1..Len(ro) |->
                [ObjectDiff(ro[i], object_type) EXCEPT
                    !.right_only = TRUE,
                    !.right_value = DictGet(right_dict, ro[i])]]
         \o BothLoop(both, left_dict, right_dict, object_type, ignore_fields) :
            lo \in Orderings(left_keys \ right_keys),
            ro \in Orderings(right_keys \ left_keys),
            both \in Orderings(left_keys \cap right_keys)}

\* compare_databases comparing the row counts of the tables whatever
\* compare_row_counts is.
compare_databases_with_row_counts(left, right, compare_row_counts) ==
    LET table_ignore == {}
    IN  [schema_diffs : compare_objects(left.schemas, right.schemas, "Schema", {}),
         table_diffs : compare_objects(left.tables, right.tables, "Table", table_ignore),
         view_diffs : compare_objects(left.views, right.views, "View", {})]

\* compare_databases: the results it can return (the snapshots of the model
\* carry no connection string, so left_name and right_name are left out).
compare_databases(left, right, compare_row_counts) ==
    LET table_ignore == IF compare_row_counts THEN {} ELSE {"row_count"}
    IN  [schema_diffs : compare_objects(left.schemas, right.schemas, "Schema", {}),
         table_diffs : compare_objects(left.tables, right.tables, "Table", table_ignore),
         view_diffs : compare_objects(left.views, right.views, "View", {})]

(***************************************************************************)
(* compare_databases on the snapshots of two servers                       *)
(***************************************************************************)
CompareViews ==
    {ViewRow(ViewDef), ViewRow(ViewDefEmail),
     [ViewRow(ViewDef) EXCEPT !.is_updatable = "NO", !.is_insertable_into = "NO"]}

\* A server holds the schema public under one of two owners, with or
\* without the schema audit, the tables users (with 0..MaxRows rows) and
\* orders or either or none, and at most one variant of the view v.
CompareContents ==
    {[skeleton |-> [schemas |-> {[SchemaRow(Public) EXCEPT !.schema_owner = owner]} \cup a,
                    tables |-> u \cup o],
      leaves |-> v] :
        owner \in SchemaOwners,
        a \in {{}, {SchemaRow(Audit)}},
        u \in {{}} \cup {{CountedTable(Users, n)} : n \in 0..MaxRows},
        o \in {{}, {CountedTable(Orders, 0)}},
        v \in {{}} \cup {{[kind |-> "views", parent |-> Public, obj |-> view]} :
                            view \in CompareViews}}

ConnectLeftCompare ==
    /\ pc = "connect_left"
    /\ \E c \in CompareContents : left_db' = fetch_all(Catalog(c))
    /\ pc' = "connect_right"
    /\ UNCHANGED <<right_db, result, console, definition_in, normalized>>

ConnectRightCompare ==
    /\ pc = "connect_right"
    /\ \E c \in CompareContents : right_db' = fetch_all(Catalog(c))
    /\ pc' = "analyze"
    /\ UNCHANGED <<left_db, result, console, definition_in, normalized>>

\* compare_databases(left_db, right_db, compare_row_counts) is called and
\* console holds what it returned.
CompareDatabases ==
    /\ pc = "analyze"
    /\ \E compare_row_counts \in BOOLEAN :
           \E returned \in compare_databases(left_db, right_db, compare_row_counts) :
               console' = <<[returned |-> returned,
                             compare_row_counts |-> compare_row_counts]>>
    /\ pc' = "compared"
    /\ UNCHANGED <<left_db, right_db, result, definition_in, normalized>>

CompareNext ==
    \/ ConnectLeftCompare
    \/ ConnectRightCompare
    \/ CompareDatabases

SpecCompare == Init /\ [][CompareNext]_vars

(***************************************************************************)
(* C30                                                                     *)
(***************************************************************************)
\* The fields of fields(object_type) outside `ignored` on which two objects
\* differ.
UnequalFields(object_type, ignored, l, r) ==
    {name \in {fields(object_type)[i] : i \in 1..Len(fields(object_type))} \ ignored :
        l[name] # r[name]}

\* diffs is what the claim says of the comparison of left_dict and
\* right_dict with the fields of `ignored` ignored.
ExactDiffs(diffs, left_dict, right_dict, object_type, ignored) ==
    LET DiffsOf(key) == {i \in 1..Len(diffs) : diffs[i].key = key}
        Expected(key) ==
            \/ key \in keys(left_dict) \ keys(right_dict)
            \/ key \in keys(right_dict) \ keys(left_dict)
            \/ /\ key \in keys(left_dict) \cap keys(right_dict)
               /\ UnequalFields(object_type, ignored, Val(DictGet(left_dict, key)),
                                Val(DictGet(right_dict, key))) # {}
    IN  /\ \A i \in 1..Len(diffs) :
               /\ diffs[i].key \in keys(left_dict) \cup keys(right_dict)
               /\ diffs[i].object_type = object_type
               /\ ~(diffs[i].left_only /\ diffs[i].right_only)
        /\ \A key \in keys(left_dict) \cup keys(right_dict) :
               /\ Cardinality(DiffsOf(key)) = IF Expected(key) THEN 1 ELSE 0
               /\ \A i \in DiffsOf(key) :
                      LET d == diffs[i]
                      IN  IF key \notin keys(right_dict)
                          THEN d.left_only /\ ~d.right_only /\ d.differences = EmptyDict
                          ELSE IF key \notin keys(left_dict)
                          THEN d.right_only /\ ~d.left_only /\ d.differences = EmptyDict
                          ELSE LET l == Val(DictGet(left_dict, key))
                                   r == Val(DictGet(right_dict, key))
                               IN  /\ ~d.left_only /\ ~d.right_only
                                   /\ keys(d.differences)
                                          = UnequalFields(object_type, ignored, l, r)
                                   /\ \A j \in 1..Len(d.differences) :
                                          d.differences[j].v
                                              = <<l[d.differences[j].k],
                                                  r[d.differences[j].k]>>
                                   /\ Cardinality(keys(d.differences))
                                          = Len(d.differences)

\* C30: each list compare_databases returns has exactly one ObjectDiff for
\* every key only the left dict has (left_only), only the right dict has
\* (right_only), or both have with some field not ignored unequal (its
\* differences holding exactly those fields with their (left, right)
\* values), and none for any other key; no ObjectDiff is both left_only and
\* right_only; the row_count of the tables is ignored unless
\* compare_row_counts is set.
C30_CompareObjects ==
    pc = "compared" =>
        LET returned == console[1].returned
            table_ignore == IF console[1].compare_row_counts THEN {} ELSE {"row_count"}
        IN  /\ ExactDiffs(returned.schema_diffs, left_db.schemas, right_db.schemas,
                          "Schema", {})
            /\ ExactDiffs(returned.table_diffs, left_db.tables, right_db.tables,
                          "Table", table_ignore)
            /\ ExactDiffs(returned.view_diffs, left_db.views, right_db.views, "View", {})

\* Without compare_row_counts, two snapshots whose table users differs in
\* its row count only were compared: no ObjectDiff for users, one left_only
\* for orders, one right_only for the schema audit and one for the view v
\* with two differing fields.
C30_Witness ==
    /\ pc = "compared"
    /\ ~console[1].compare_row_counts
    /\ Table_key(TableRow(Public, Users)) \in keys(left_db.tables) \cap keys(right_db.tables)
    /\ Val(DictGet(left_db.tables, Table_key(TableRow(Public, Users)))).row_count
           # Val(DictGet(right_db.tables, Table_key(TableRow(Public, Users)))).row_count
    /\ Len(console[1].returned.table_diffs) = 1
    /\ console[1].returned.table_diffs[1].left_only
    /\ Len(console[1].returned.schema_diffs) = 1
    /\ console[1].returned.schema_diffs[1].right_only
    /\ Len(console[1].returned.view_diffs) = 1
    /\ Len(console[1].returned.view_diffs[1].differences) = 2

====
